---------------------------- MODULE Spec2Model ----------------------------
(***************************************************************************)
(* Model of the NTU admin helper: the document-to-chunk pipeline           *)
(* (src/processor.py) and the two-stage retrieval engine                   *)
(* (src/rag_engine.py).                                                    *)
(*                                                                         *)
(* Text is a sequence of code points.  A code point is written as a TLA+   *)
(* string: an ASCII character stands for itself ("a", "1", " ", "\n"), a   *)
(* CJK character is written by its romanised reading ("lou" is the floor   *)
(* glyph of "1樓", "zu" the suffix of "註冊組"), and a full-width           *)
(* punctuation mark by "fw" and its ASCII shape ("fw(" is "（").            *)
(* Distances are integers in units of 0.05.                                *)
(***************************************************************************)
EXTENDS Integers, Sequences, FiniteSets, TLC

(***************************************************************************)
(* Python str primitives over code-point sequences                         *)
(***************************************************************************)

\* The code points of an ASCII string, one per character.
S(str) == [i \in 1..Len(str) |-> SubSeq(str, i, i)]

Min(a, b) == IF a <= b THEN a ELSE b

Max(a, b) == IF a >= b THEN a ELSE b

\* str.isspace() of one code point; "fw " is U+3000.
WhiteSpace == {" ", "\n", "\t", "\r", "fw "}

\* str.isdigit() of one code point.
Digits == {"0", "1", "2", "3", "4", "5", "6", "7", "8", "9"}

\* s[:n]
Prefix(s, n) == SubSeq(s, 1, Min(n, Len(s)))

\* s[n:] with n counted from 0 as in Python
Drop(s, n) == SubSeq(s, n + 1, Len(s))

\* s[a-1:b], clipped to s as a Python slice is
Slice(s, a, b) == IF a > Len(s) THEN <<>> ELSE SubSeq(s, a, Min(b, Len(s)))

\* s.startswith(p)
StartsWith(s, p) == Len(p) <= Len(s) /\ SubSeq(s, 1, Len(p)) = p

\* The least 1-based index at which sub occurs in s, 0 when it does not (str.find + 1).
Find(s, sub) ==
    LET hits == {i \in 1..(Len(s) - Len(sub) + 1) : SubSeq(s, i, i + Len(sub) - 1) = sub}
    IN  IF hits = {} THEN 0 ELSE CHOOSE i \in hits : \A j \in hits : i <= j

\* sub in s
Contains(s, sub) == Find(s, sub) # 0

\* s.split(sep)[0] for a non-empty separator
BeforeFirst(s, sep) ==
    LET k == Find(s, sep) IN IF k = 0 THEN s ELSE SubSeq(s, 1, k - 1)

\* s.lstrip(): leading white space removed
LStrip(s) ==
    LET keep == {i \in 1..Len(s) : s[i] \notin WhiteSpace}
    IN  IF keep = {} THEN <<>>
        ELSE SubSeq(s, CHOOSE i \in keep : \A j \in keep : i <= j, Len(s))

\* s.rstrip()
RStrip(s) ==
    LET keep == {i \in 1..Len(s) : s[i] \notin WhiteSpace}
    IN  IF keep = {} THEN <<>>
        ELSE SubSeq(s, 1, CHOOSE i \in keep : \A j \in keep : i >= j)

\* s.strip()
Strip(s) == LStrip(RStrip(s))

\* s.lstrip(ch) for a one-character argument
LStripChar(s, ch) ==
    LET keep == {i \in 1..Len(s) : s[i] # ch}
    IN  IF keep = {} THEN <<>>
        ELSE SubSeq(s, CHOOSE i \in keep : \A j \in keep : i <= j, Len(s))

\* s.isdigit(): non-empty and every code point a digit
IsDigitStr(s) == Len(s) > 0 /\ \A i \in 1..Len(s) : s[i] \in Digits

RECURSIVE SplitFrom(_, _, _)
\* The pieces of s from index start on, cut at every occurrence of the code point sep.
SplitFrom(s, sep, start) ==
    LET cuts == {i \in start..Len(s) : s[i] = sep}
    IN  IF cuts = {} THEN <<SubSeq(s, start, Len(s))>>
        ELSE LET k == CHOOSE i \in cuts : \A j \in cuts : i <= j
             IN  <<SubSeq(s, start, k - 1)>> \o SplitFrom(s, sep, k + 1)

\* s.split("\n")
SplitLines(s) == SplitFrom(s, "\n", 1)

RECURSIVE JoinLines(_)
\* "\n".join(lines)
JoinLines(lines) ==
    IF Len(lines) = 0 THEN <<>>
    ELSE IF Len(lines) = 1 THEN lines[1]
    ELSE lines[1] \o <<"\n">> \o JoinLines(Tail(lines))

\* The length of the longest run of digits of s that starts at index i.
DigitRun(s, i) ==
    LET stops == {j \in i..Len(s) : s[j] \notin Digits}
    IN  IF stops = {} THEN Len(s) - i + 1
        ELSE (CHOOSE j \in stops : \A k \in stops : j <= k) - i

\* The length of the longest run of white space of s that starts at index i.
SpaceRun(s, i) ==
    LET stops == {j \in i..Len(s) : s[j] \notin WhiteSpace}
    IN  IF stops = {} THEN Len(s) - i + 1
        ELSE (CHOOSE j \in stops : \A k \in stops : j <= k) - i

(***************************************************************************)
(* DataProcessor._normalize_unit_id                                        *)
(***************************************************************************)

\* The characters the pattern of re.sub deletes, besides \s.
NormalizePunctuation ==
    {"(", ")", "fw(", "fw)", "[", "]", "fw[", "fw]", "-", "en-dash", "em-dash",
     "_", "middle-dot", "bullet", ":", "fw:", ",", "fw,", "fw.", "fw-dot", ".", "/", "\\"}

\* str.lower() of one code point: the Latin capitals; no other code point of the
\* model's alphabet is cased.
LowerChar(c) ==
    CASE c = "A" -> "a" [] c = "B" -> "b" [] c = "C" -> "c" [] c = "D" -> "d" [] c = "E" -> "e"
      [] c = "F" -> "f" [] c = "G" -> "g" [] c = "H" -> "h" [] c = "I" -> "i" [] c = "J" -> "j"
      [] c = "K" -> "k" [] c = "L" -> "l" [] c = "M" -> "m" [] c = "N" -> "n" [] c = "O" -> "o"
      [] c = "P" -> "p" [] c = "Q" -> "q" [] c = "R" -> "r" [] c = "S" -> "s" [] c = "T" -> "t"
      [] c = "U" -> "u" [] c = "V" -> "v" [] c = "W" -> "w" [] c = "X" -> "x" [] c = "Y" -> "y"
      [] c = "Z" -> "z"
      [] OTHER -> c

\* str.lower()
Lower(s) == [i \in 1..Len(s) |-> LowerChar(s[i])]

\* re.sub(r'[\s\(\)...]', '', unit_name)
RemoveNormalized(s) ==
    SelectSeq(s, LAMBDA c : c \notin WhiteSpace /\ c \notin NormalizePunctuation)

\* A variant that keeps the full-width brackets and does not fold case.
NormalizeUnitIdAsciiOnly(unit_name) ==
    SelectSeq(unit_name, LAMBDA c : c \notin {" ", "(", ")", "-", ".", ","})

\* _normalize_unit_id(unit_name); None and "" both give "".
NormalizeUnitId(unit_name) ==
    IF unit_name = <<>> THEN <<>> ELSE Lower(RemoveNormalized(unit_name))

(***************************************************************************)
(* DataProcessor.clean_text_advanced                                       *)
(***************************************************************************)

\* "【系統補充位置資訊】", the marker that opens an enrichment block.
EnrichmentMarker == <<"fw[", "xi", "tong", "bu", "chong", "wei", "zhi", "zi", "xun", "fw]">>

\* The admin line-wrap fault and its repair.
AdmiBroken == S("Admi nistration")

AdmiFixed == S("Administration")

\* The text at which the repeated admin footer starts.
AdminFooter ==
    S("Overseas Chinese and Mainland Chinese Students Advising Division")
       \o <<"\n", "lie", "yin", "cheng", "ji", "dan">>

\* noise_patterns
NoisePatterns ==
    { S("Administration Building - List of Offices"),
      S("Main Content"),
      <<"di", "tu">> \o S(" MAP"),
      <<"xiao", "yuan", "jing", "guan">> \o S(" Campus View"),
      <<"geng", "duo", "zi", "xun">>,
      <<"xue", "xiao", "di", "tu", "shang", "de", "jian", "wu", "bian", "hao">>,
      S("Building ID /"),
      <<"dan", "wei", "qing", "dan">> \o S(" / Offices list") }

RECURSIVE ReplaceAll(_, _, _)
\* text.replace(old, new)
ReplaceAll(text, old, new) ==
    LET k == Find(text, old)
    IN  IF k = 0 THEN text
        ELSE SubSeq(text, 1, k - 1) \o new
               \o ReplaceAll(SubSeq(text, k + Len(old), Len(text)), old, new)

\* A variant that leaves an enrichment block in the text.
KeepEnrichment(text) == text

\* Step 0: an existing enrichment block is cut off.
StripEnrichment(text) ==
    IF Contains(text, EnrichmentMarker)
    THEN Strip(BeforeFirst(text, EnrichmentMarker))
    ELSE text

\* Step 1: the admin-specific fixes.
DeptPrefix(text, dept) ==
    IF dept = "admin"
    THEN BeforeFirst(ReplaceAll(text, AdmiBroken, AdmiFixed), AdminFooter)
    ELSE text

RECURSIVE NoiseRemoval(_)
\* Step 2: every line stripped; empty and noise lines dropped; a leading run of
\* "#" removed from a line that starts with "##" (the line is kept even when
\* nothing is left of it).
NoiseRemoval(lines) ==
    IF Len(lines) = 0 THEN <<>>
    ELSE LET line == Strip(lines[1])
             rest == NoiseRemoval(Tail(lines))
         IN  IF line = <<>> THEN rest
             ELSE IF \E pattern \in NoisePatterns : Contains(line, pattern) THEN rest
             ELSE IF StartsWith(line, <<"#", "#">>)
                  THEN <<Strip(LStripChar(line, "#"))>> \o rest
             ELSE <<line>> \o rest

\* is_room: a number of at most 4 digits, or "B" and digits.
IsRoom(line) ==
    \/ IsDigitStr(line) /\ Len(line) <= 4
    \/ StartsWith(line, <<"B">>) /\ IsDigitStr(Drop(line, 1))

\* The floor-header formatting of one line.
FormatFloor(line) ==
    IF Contains(line, <<"lou">>) /\ Len(line) < 10 /\ ~StartsWith(line, <<"#", "#">>)
    THEN <<"#", "#", " ">> \o line
    ELSE line

\* The test on the line after a room number: a name, not a number, header or floor.
LooksLikeName(next1) ==
    ~(next1[1] \in Digits \/ Contains(next1, <<"#">>) \/ Contains(next1, <<"lou">>))

\* Whether the room line at i is rewritten together with next1 and next2.
ReformatTaken(clean_lines, i, next1, next2) == LooksLikeName(next1)

RECURSIVE Reformat(_, _)
\* Step 3: the while loop from index i (1-based) on.  raised is the IndexError
\* of next1[0] on an empty line.
Reformat(clean_lines, i) ==
    IF i > Len(clean_lines) THEN [raised |-> FALSE, lines |-> <<>>]
    ELSE LET line == clean_lines[i]
             room == IsRoom(line) /\ i + 2 <= Len(clean_lines)
         IN  IF room /\ clean_lines[i + 1] = <<>>
             THEN [raised |-> TRUE, lines |-> <<>>]
             ELSE IF room /\ ReformatTaken(clean_lines, i, clean_lines[i + 1], clean_lines[i + 2])
             THEN LET rest == Reformat(clean_lines, i + 3)
                  IN  [raised |-> rest.raised,
                       lines  |-> << <<"-", " ">> \o line \o <<" ">> \o clean_lines[i + 1]
                                       \o <<" ", "(">> \o clean_lines[i + 2] \o <<")">> >>
                                  \o rest.lines]
             ELSE LET rest == Reformat(clean_lines, i + 1)
                  IN  [raised |-> rest.raised,
                       lines  |-> <<FormatFloor(line)>> \o rest.lines]

\* clean_text_advanced(text, dept): [raised, text]; text is the returned string
\* and is "" when the call raised.
CleanTextAdvanced(text, dept) ==
    IF text = <<>> THEN [raised |-> FALSE, text |-> <<>>]
    ELSE LET pre    == DeptPrefix(StripEnrichment(text), dept)
             final  == Reformat(NoiseRemoval(SplitLines(pre)), 1)
             result == JoinLines(final.lines)
         IN  IF final.raised THEN [raised |-> TRUE, text |-> <<>>]
             ELSE [raised |-> FALSE, text |-> StripEnrichment(result)]

(***************************************************************************)
(* DataProcessor._extract_office_locations                                 *)
(***************************************************************************)

\* (\d+樓|B\d+) matched at index p of s: the matched text, "" when it does not match.
FloorTokenAt(s, p) ==
    LET k == DigitRun(s, p)
    IN  IF k >= 1 /\ p + k <= Len(s) /\ s[p + k] = "lou" THEN SubSeq(s, p, p + k)
        ELSE IF p <= Len(s) /\ s[p] = "B" /\ DigitRun(s, p + 1) >= 1
             THEN SubSeq(s, p, p + DigitRun(s, p + 1))
        ELSE <<>>

\* re.match(r'^(?:##\s*)?(\d+樓|B\d+)', line): group 1, "" when there is no match.
FloorMatch(line) ==
    IF StartsWith(line, <<"#", "#">>)
    THEN FloorTokenAt(line, 3 + SpaceRun(line, 3))
    ELSE FloorTokenAt(line, 1)

\* (\d+|B\d+) matched at index p of s: the length of the match, 0 for no match.
RoomLenAt(s, p) ==
    IF DigitRun(s, p) >= 1 THEN DigitRun(s, p)
    ELSE IF p <= Len(s) /\ s[p] = "B" /\ DigitRun(s, p + 1) >= 1 THEN 1 + DigitRun(s, p + 1)
    ELSE 0

\* Whether t matches \s*\((.+?)\) up to the end of the line.
IsEnglishPart(t) ==
    LET j == SpaceRun(t, 1)
    IN  Len(t) - j >= 3 /\ t[j + 1] = "(" /\ t[Len(t)] = ")"

\* re.match(r'^-\s*(\d+|B\d+)\s+(.+?)(?:\s*\((.+?)\))?$', line) with its groups
\* as the code reads them: name_zh is group 2 stripped, name_en group 3 stripped
\* or "".
OfficeMatch(line) ==
    LET none == [matched |-> FALSE, room |-> <<>>, name_zh |-> <<>>, name_en |-> <<>>]
    IN  IF ~StartsWith(line, <<"-">>) THEN none
        ELSE LET p == 2 + SpaceRun(line, 2)
                 k == RoomLenAt(line, p)
                 w == SpaceRun(line, p + k)
                 r == SubSeq(line, p + k + w, Len(line))
             IN  IF k = 0 \/ w = 0 \/ r = <<>> THEN none
                 ELSE LET cuts == {n \in 1..Len(r) :
                                      n = Len(r) \/ IsEnglishPart(SubSeq(r, n + 1, Len(r)))}
                          n    == CHOOSE a \in cuts : \A b \in cuts : a <= b
                          t    == SubSeq(r, n + 1, Len(r))
                          j    == SpaceRun(t, 1)
                      IN  [matched |-> TRUE,
                           room    |-> SubSeq(line, p, p + k - 1),
                           name_zh |-> Strip(SubSeq(r, 1, n)),
                           name_en |-> IF t = <<>> THEN <<>>
                                       ELSE Strip(SubSeq(t, j + 2, Len(t) - 1))]

\* The state of one extraction pass before its first line.
ExtractStart == [current_floor |-> <<>>, offices |-> <<>>]

\* A variant in which a line that is neither a header nor an entry ends the floor.
ExtractLineFloorReset(st, raw, building_name) ==
    LET line == Strip(raw)
        m    == OfficeMatch(line)
    IN  IF FloorMatch(line) # <<>>
        THEN [st EXCEPT !.current_floor = FloorMatch(line)]
        ELSE IF m.matched /\ st.current_floor # <<>>
        THEN [st EXCEPT !.offices = Append(@,
                 [building |-> building_name, floor |-> st.current_floor,
                  room |-> m.room, name_zh |-> m.name_zh, name_en |-> m.name_en])]
        ELSE [st EXCEPT !.current_floor = <<>>]

\* The body of the loop over the lines: a floor header sets current_floor, an
\* office entry under a floor appends a record, any other line is skipped.
ExtractLine(st, raw, building_name) ==
    LET line == Strip(raw)
        m    == OfficeMatch(line)
    IN  IF FloorMatch(line) # <<>>
        THEN [st EXCEPT !.current_floor = FloorMatch(line)]
        ELSE IF m.matched /\ st.current_floor # <<>>
        THEN [st EXCEPT !.offices = Append(@,
                 [building |-> building_name, floor |-> st.current_floor,
                  room |-> m.room, name_zh |-> m.name_zh, name_en |-> m.name_en])]
        ELSE st

RECURSIVE ExtractFrom(_, _, _, _)
\* The loop from line i on.
ExtractFrom(st, lines, i, building_name) ==
    IF i > Len(lines) THEN st
    ELSE ExtractFrom(ExtractLine(st, lines[i], building_name), lines, i + 1, building_name)

\* _extract_office_locations(content, building_name)
ExtractOfficeLocations(content, building_name) ==
    ExtractFrom(ExtractStart, SplitLines(content), 1, building_name).offices

(***************************************************************************)
(* DataProcessor._create_location_chunks                                   *)
(***************************************************************************)

\* The text of the location chunk of one office.
LocationText(office) ==
    LET zh == office.name_zh
        en == office.name_en
        b  == office.building
        f  == office.floor
        r  == office.room
    IN  <<"fw[">> \o zh \o <<"wei", "zhi", "zi", "xun", "fw]", "\n">>
        \o zh \o <<"\n">>
        \o <<"ying", "wen", "ming", "cheng1", "fw:">> \o en \o <<"\n">>
        \o <<"wei", "zhi", "fw:">> \o b \o <<" ">> \o f \o <<" ">> \o r \o <<"shi", "\n">>
        \o <<"jian", "zhu4", "wu", "fw:">> \o b \o <<"\n">>
        \o <<"lou", "ceng", "fw:">> \o f \o <<"\n">>
        \o <<"fang", "jian1", "hao", "ma", "fw:">> \o r \o <<"\n", "\n">>
        \o zh \o <<"wei", "yu">> \o b \o f \o <<"de">> \o r \o <<"shi", "fw.", "\n">>
        \o <<"ru", "xu", "qian", "wang">> \o zh \o <<"fw,", "qing3", "zhi4">> \o b \o f
        \o <<"zhao">> \o r \o <<"shi", "fw.">>
        \o (IF en # <<>>
            THEN <<"\n">> \o en \o S(" is located at Room ") \o r \o S(", ") \o f
                   \o S(", ") \o b \o S(".")
            ELSE <<>>)

\* A variant that keys the chunk by the raw name.
LocationChunkRawKey(office, source_url, department) ==
    [text     |-> LocationText(office),
     metadata |-> [title      |-> office.name_zh \o <<"wei", "zhi">>,
                   url        |-> source_url,
                   department |-> department,
                   type       |-> "location",
                   unit_name  |-> office.name_zh,
                   unit_id    |-> office.name_zh,
                   building   |-> office.building,
                   floor      |-> office.floor,
                   room       |-> office.room]]

\* The chunk _create_location_chunks makes of one office.
LocationChunk(office, source_url, department) ==
    [text     |-> LocationText(office),
     metadata |-> [title      |-> office.name_zh \o <<"wei", "zhi">>,
                   url        |-> source_url,
                   department |-> department,
                   type       |-> "location",
                   unit_name  |-> office.name_zh,
                   unit_id    |-> NormalizeUnitId(office.name_zh),
                   building   |-> office.building,
                   floor      |-> office.floor,
                   room       |-> office.room]]

\* _create_location_chunks(offices, source_url, department)
CreateLocationChunks(offices, source_url, department) ==
    [i \in 1..Len(offices) |-> LocationChunk(offices[i], source_url, department)]

(***************************************************************************)
(* DataProcessor._classify_chunk_type and the text of a content chunk      *)
(***************************************************************************)

\* phone_keywords, the same list in processor.py and rag_engine.py
PhoneKeywords ==
    { <<"dian", "hua">>, <<"fen", "ji1">>, <<"lian", "luo", "fang1", "shi4">>,
      <<"lian", "luo">>, S("tel"), S("phone") }

\* service_keywords, the same list in processor.py and rag_engine.py
ServiceKeywords ==
    { <<"fu", "wu4">>, <<"ye", "wu4">>, <<"zhi2", "zhang">>, <<"ban", "li3">>,
      <<"shen", "qing3">>, <<"liu", "cheng2">>, <<"gui", "ding">>, <<"yao", "jian4">> }

\* _classify_chunk_type(text)
ClassifyChunkType(text) ==
    IF text = <<>> THEN "general"
    ELSE IF \E k \in PhoneKeywords : Contains(Lower(text), Lower(k)) THEN "phone"
    ELSE IF \E k \in ServiceKeywords : Contains(Lower(text), Lower(k)) THEN "service"
    ELSE "general"

\* chunk.page_content = f"【位於：{title}】\n{chunk.page_content}"
ContentText(title, page_content) ==
    <<"fw[", "wei", "yu", "fw:">> \o title \o <<"fw]", "\n">> \o page_content

(***************************************************************************)
(* EnhancedRAGEngine: pure parts                                           *)
(***************************************************************************)

\* [^\s,，。、]
IsNameChar(c) == c \notin WhiteSpace /\ c \notin {",", "fw,", "fw.", "dun"}

\* The length of the longest run of name characters of s that starts at index i.
NameRun(s, i) ==
    LET stops == {j \in i..Len(s) : ~IsNameChar(s[j])}
    IN  IF stops = {} THEN Len(s) - i + 1
        ELSE (CHOOSE j \in stops : \A k \in stops : j <= k) - i

\* unit_patterns: the suffix of each pattern and the bounds of its repetition.
UnitPatterns ==
    << [suffix |-> <<"zu">>,            lo |-> 2, hi |-> 6],
       [suffix |-> <<"chu">>,           lo |-> 2, hi |-> 6],
       [suffix |-> <<"zhong", "xin">>,  lo |-> 2, hi |-> 8],
       [suffix |-> <<"bu4">>,           lo |-> 2, hi |-> 6],
       [suffix |-> <<"shi">>,           lo |-> 2, hi |-> 6],
       [suffix |-> <<"guan3">>,         lo |-> 2, hi |-> 6] >>

\* The length of the match of ([^\s,，。、]{lo,hi}suffix) at index p of text, 0 for
\* none: the repetition is greedy and gives back down to lo.
UnitMatchLen(text, pat, p) ==
    LET run == Min(NameRun(text, p), pat.hi)
        ks  == {k \in pat.lo..run :
                   Slice(text, p + k, p + k + Len(pat.suffix) - 1) = pat.suffix}
    IN  IF ks = {} THEN 0
        ELSE (CHOOSE k \in ks : \A j \in ks : k >= j) + Len(pat.suffix)

RECURSIVE FindAllUnits(_, _, _)
\* re.findall(pattern, text) from index p on: the matches, left to right, not
\* overlapping.
FindAllUnits(text, pat, p) ==
    LET starts == {q \in p..Len(text) : UnitMatchLen(text, pat, q) > 0}
    IN  IF starts = {} THEN {}
        ELSE LET q == CHOOSE a \in starts : \A b \in starts : a <= b
                 n == UnitMatchLen(text, pat, q)
             IN  {SubSeq(text, q, q + n - 1)} \cup FindAllUnits(text, pat, q + n)

\* exclude_terms
ExcludeTerms ==
    { <<"ben", "zu">>, <<"gai", "zu">>, <<"ge", "zu">>, <<"fen", "zu">>, <<"xiao3", "zu">>,
      <<"ben", "bu4">>, <<"gai", "bu4">>, <<"ben", "chu">>, <<"gai", "chu">>,
      <<"ben", "zhong", "xin">>, <<"ban", "gong", "shi">>, <<"hui", "yi", "shi">> }

\* The characters that mark a match as part of a clause.
VerbChars == {"you", "wei2", "zhi4", "zai", "xiang", "dao"}

\* _extract_unit_names(text), as a set
ExtractUnitNames(text) ==
    LET matches == UNION {FindAllUnits(text, UnitPatterns[i], 1) : i \in DOMAIN UnitPatterns}
    IN  {m \in matches :
            /\ m[1] \notin Digits
            /\ m \notin ExcludeTerms
            /\ \A i \in 1..Len(m) : m[i] \notin VerbChars}

\* location_keywords
LocationKeywords ==
    { <<"zai", "na">>, <<"wei", "zhi">>, <<"di", "zhi3">>, <<"zen", "me", "qu">>,
      <<"ru", "he", "dao">>, S("where"), S("location"), <<"ji3", "lou">> }

\* _is_location_query(query)
IsLocationQuery(query) == \E k \in LocationKeywords : Contains(Lower(query), k)

\* A variant that looks for the phone keywords first.
GetQueryIntentPhoneFirst(query) ==
    IF \E k \in PhoneKeywords : Contains(Lower(query), Lower(k)) THEN "phone"
    ELSE IF IsLocationQuery(query) THEN "location"
    ELSE IF \E k \in ServiceKeywords : Contains(Lower(query), Lower(k)) THEN "service"
    ELSE "general"

\* _get_query_intent(query)
GetQueryIntent(query) ==
    IF IsLocationQuery(query) THEN "location"
    ELSE IF \E k \in PhoneKeywords : Contains(Lower(query), Lower(k)) THEN "phone"
    ELSE IF \E k \in ServiceKeywords : Contains(Lower(query), Lower(k)) THEN "service"
    ELSE "general"

(***************************************************************************)
(* EnhancedRAGEngine: the numbers of the code, distances in units of 0.05  *)
(***************************************************************************)

Stage1N == 5

Stage2N == 10

TopK == 5

PriorityN == 15

MaxPerUnit == 2

UnitIdLimit == 50

FingerprintLen == 80

SeenLen == 100

LocationBoost == 4

PhoneBoost == 3

ServiceBoost == 2

(***************************************************************************)
(* The vector store: the chunks it may hold                                *)
(***************************************************************************)

\* The most filler chunks (content chunks of one unit) a store holds.
NFill == 5

\* The most chunks without unit fields, nearest to every query, a store holds.
NNoise == 4

\* The most other chunks a store holds.
MaxSpecial == 2

\* The most store queries that raise during one request.
MaxFaults == 2

ZhuCeZu == <<"zhu", "ce", "zu">>

JiaoWuChu == <<"jiao", "wu4", "chu">>

AdminBuilding == <<"xing", "zheng", "da", "lou">>

LongEnglishName == S("Registration and Student Records Section of Academic Affairs")

Office(floor, room, name_zh, name_en) ==
    [building |-> AdminBuilding, floor |-> floor, room |-> room,
     name_zh |-> name_zh, name_en |-> name_en]

\* A variant in which a content chunk carries the building of its page.
ContentChunkWithBuilding(title, page_content, url, department, unit) ==
    [text     |-> ContentText(title, page_content),
     metadata |-> [title |-> title, url |-> url, department |-> department,
                   type |-> ClassifyChunkType(page_content),
                   building |-> AdminBuilding] @@ unit]

\* A content chunk as process() stores it: the text under its title, the type
\* from the text, and the unit fields only when given.
ContentChunk(title, page_content, url, department, unit) ==
    [text     |-> ContentText(title, page_content),
     metadata |-> [title |-> title, url |-> url, department |-> department,
                   type |-> ClassifyChunkType(page_content)] @@ unit]

\* A unit id of n characters.
LongUnitId(n) == [i \in 1..n |-> "x"]

\* A chunk in the store, with what the embedding gives: its distance to the
\* request's query text (query), to "{unit name} {query}" (named) and to a unit
\* id or unit name used as the query text (unit), in units of 0.05.
Stored(chunk, query, named, unit) ==
    [text |-> chunk.text, metadata |-> chunk.metadata,
     distance |-> [query |-> query, named |-> named, unit |-> unit]]

\* The chunks besides the fillers and the noise.
SpecialChunks ==
    << \* 1, 2: two rooms of one office; the texts agree in their first 80
       \* characters and differ in the next 20
       Stored(LocationChunk(Office(S("1") \o <<"lou">>, S("106"), ZhuCeZu, LongEnglishName),
                            S("u/admin"), "admin"), 9, 9, 0),
       Stored(LocationChunk(Office(S("1") \o <<"lou">>, S("107"), ZhuCeZu, LongEnglishName),
                            S("u/admin"), "admin"), 9, 9, 1),
       \* 3: the same office written with a space in its name
       Stored(LocationChunk(Office(S("2") \o <<"lou">>, S("201"),
                                   <<"zhu", "ce", " ", "zu">>, S("Registrar")),
                            S("u/admin2"), "admin"), 7, 7, 2),
       \* 4: a page without unit fields that names the office
       Stored(ContentChunk(S("FAQ"), <<"qing3", "qing4", " ">> \o ZhuCeZu, S("u/faq"), "aca",
                           <<>>), 3, 2, 5),
       \* 5: a unit id with a line break in it
       Stored(ContentChunk(S("T"), S("x"), S("u/t"), "osa",
                           [unit_id |-> ZhuCeZu \o <<"\n">> \o S("x")]), 2, 6, 7),
       \* 6: a unit id of 51 characters, on a page that names another office
       Stored(ContentChunk(S("T"), JiaoWuChu, S("u/t"), "osa",
                           [unit_id |-> LongUnitId(UnitIdLimit + 1)]), 4, 6, 7),
       \* 7: a page of another unit that names the office
       Stored(ContentChunk(JiaoWuChu,
                           JiaoWuChu \o <<" ", "xia", "she", " ">> \o ZhuCeZu
                             \o <<" ", "dian", "hua", " ">> \o S("123"),
                           S("u/aca"), "aca",
                           [unit_name |-> JiaoWuChu, unit_id |-> NormalizeUnitId(JiaoWuChu)]),
              1, 3, 6),
       \* 8, 9: a unit id of 50 characters and one of 49
       Stored(ContentChunk(S("T"), S("y"), S("u/t50"), "osa",
                           [unit_id |-> LongUnitId(UnitIdLimit)]), 4, 6, 7),
       Stored(ContentChunk(S("T"), S("z"), S("u/t49"), "osa",
                           [unit_id |-> LongUnitId(UnitIdLimit - 1)]), 5, 6, 7) >>

\* The i-th filler: a content chunk of the office's own page.
Filler(i) ==
    Stored(ContentChunk(ZhuCeZu,
                        S(ToString(i)) \o <<" ">> \o ZhuCeZu \o <<" ", "ban", "li3", " ", "xiu", "xue">>,
                        S("u/reg"), "aca",
                        [unit_name |-> ZhuCeZu, unit_id |-> NormalizeUnitId(ZhuCeZu)]),
           i - 1, i - 1, 6)

\* The i-th noise chunk: a page that names no unit and is near every query.
Noise(i) ==
    Stored(ContentChunk(S("N"), S(ToString(i)), S("u/n"), "osa", <<>>), 0, 0, 0)

\* The ids of s in ascending order.
RECURSIVE Ascending(_)
Ascending(s) ==
    IF s = {} THEN <<>>
    ELSE LET m == CHOOSE a \in s : \A b \in s : a <= b
         IN  <<m>> \o Ascending(s \ {m})

\* The chunks of all at the positions of s, in that order.
Pick(all, s) == [j \in 1..Cardinality(s) |-> all[Ascending(s)[j]]]

\* The stores: some special chunks, with or without the fillers and the noise
\* chunks, in the order of insertion (which breaks ties of distance).
Stores ==
    UNION { { Pick(special, sp) \o fillers \o noise :
                sp \in {x \in SUBSET (1..Len(special)) : Cardinality(x) <= MaxSpecial},
                fillers \in {<<>>, [i \in 1..NFill |-> Filler(i)]},
                noise \in {<<>>, [i \in 1..NNoise |-> Noise(i)]} } :
            special \in {SpecialChunks} }

\* meta.get(key): <<>> stands for None
MetaGet(meta, key) == IF key \in DOMAIN meta THEN meta[key] ELSE <<>>

\* meta.get('type', 'general')
TypeOf(meta) == IF "type" \in DOMAIN meta THEN meta.type ELSE "general"

\* The request texts.
Queries ==
    { ZhuCeZu \o <<"zai", "na", "li">>,
      ZhuCeZu \o <<"dian", "hua">>,
      ZhuCeZu \o <<"shen", "qing3">>,
      S("hello") }

(***************************************************************************)
(* collection.query                                                        *)
(***************************************************************************)

\* No where argument.
NoFilter == [k \in {} |-> <<>>]

\* Whether a chunk's metadata satisfies the where argument: every key of the
\* filter is a key of the metadata with that value.
Matches(meta, where) ==
    \A k \in DOMAIN where : k \in DOMAIN meta /\ meta[k] = where[k]

\* entries with e put after the entries that are not farther than e.
InsertByDist(entries, e) ==
    LET before == {j \in 1..Len(entries) : entries[j].dist <= e.dist}
        k      == IF before = {} THEN 0 ELSE CHOOSE a \in before : \A b \in before : a >= b
    IN  SubSeq(entries, 1, k) \o <<e>> \o SubSeq(entries, k + 1, Len(entries))

RECURSIVE SortByDist(_)
\* sorted(entries, key=distance): ascending and stable.
SortByDist(entries) ==
    IF entries = <<>> THEN <<>>
    ELSE InsertByDist(SortByDist(SubSeq(entries, 1, Len(entries) - 1)), entries[Len(entries)])

\* The chunks as a result lists them: document, metadata and distance.
AsEntries(chunks, kind) ==
    [j \in 1..Len(chunks) |->
        [doc |-> chunks[j].text, meta |-> chunks[j].metadata, dist |-> chunks[j].distance[kind]]]

\* collection.query(query_texts=[..], n_results=n, where=where) on the store st:
\* the n nearest matching chunks, nearest first.  kind names which distance the
\* query text has to a chunk.
StoreQuery(st, kind, n, where) ==
    Prefix(SortByDist(AsEntries(SelectSeq(st, LAMBDA c : Matches(c.metadata, where)), kind)), n)

\* What is recorded of one call.
CallRecord(query_text, n, where, raised) ==
    [query_text |-> query_text, n_results |-> n, where |-> where, raised |-> raised]

(***************************************************************************)
(* EnhancedRAGEngine                                                       *)
(***************************************************************************)

\* doc_id = f"{meta.get('url', '')}_{meta.get('title', '')}_{doc[:80]}"
Fingerprint(e) ==
    MetaGet(e.meta, "url") \o <<"_">> \o MetaGet(e.meta, "title") \o <<"_">>
        \o Prefix(e.doc, FingerprintLen)

\* A variant of the merge loop that does not look at the fingerprints.
MergeAll(all, found) == all \o found

\* The merge loop of retrieve_stage2: each found entry whose fingerprint is not
\* yet seen joins all_docs.  seen_ids holds the fingerprints of all_docs.
MergeUnseen(all, found) ==
    LET RECURSIVE Go(_, _)
        Go(acc, k) ==
            IF k > Len(found) THEN acc
            ELSE IF \E j \in 1..Len(acc) : Fingerprint(acc[j]) = Fingerprint(found[k])
                 THEN Go(acc, k + 1)
                 ELSE Go(Append(acc, found[k]), k + 1)
    IN  Go(all, 1)

\* A variant that subtracts the discount without the floor at 0.
ApplyTypeBoostWithoutFloor(meta, dist, intent) ==
    IF intent = "location" /\ TypeOf(meta) = "location" THEN dist - LocationBoost
    ELSE IF intent = "phone" /\ TypeOf(meta) = "phone" THEN dist - PhoneBoost
    ELSE IF intent = "service" /\ TypeOf(meta) = "service" THEN dist - ServiceBoost
    ELSE dist

\* _apply_type_boost(meta, dist, intent)
ApplyTypeBoost(meta, dist, intent) ==
    IF intent = "location" /\ TypeOf(meta) = "location" THEN Max(0, dist - LocationBoost)
    ELSE IF intent = "phone" /\ TypeOf(meta) = "phone" THEN Max(0, dist - PhoneBoost)
    ELSE IF intent = "service" /\ TypeOf(meta) = "service" THEN Max(0, dist - ServiceBoost)
    ELSE dist

\* The entries with their boosted distances.
Boosted(entries, intent) ==
    [j \in 1..Len(entries) |->
        [entries[j] EXCEPT !.dist = ApplyTypeBoost(entries[j].meta, entries[j].dist, intent)]]

\* A variant that cuts to top_k without sorting the boosted entries.
RerankWithoutSort(entries, intent, top_k) == Prefix(Boosted(entries, intent), top_k)

\* _rerank_with_intent(docs, metas, dists, intent, top_k)
RerankWithIntent(entries, intent, top_k) == Prefix(SortByDist(Boosted(entries, intent)), top_k)

\* A variant with the test on the type turned around.
OnlyOthers(found) == SelectSeq(found, LAMBDA e : MetaGet(e.meta, "type") # "location")

\* if meta.get('type') == 'location'
OnlyLocation(found) == SelectSeq(found, LAMBDA e : MetaGet(e.meta, "type") = "location")

\* A variant that appends nothing.
AppendNone(results, found) == results

\* A variant that appends what was found without looking at what was seen.
AppendEvery(results, found) == results \o found

\* _append(doc, meta, dist) over found: each entry whose first 100 characters
\* of text are not yet seen is appended.
AppendUnseen(results, found) ==
    LET RECURSIVE Go(_, _)
        Go(acc, k) ==
            IF k > Len(found) THEN acc
            ELSE IF \E j \in 1..Len(acc) : Prefix(acc[j].doc, SeenLen) = Prefix(found[k].doc, SeenLen)
                 THEN Go(acc, k + 1)
                 ELSE Go(Append(acc, found[k]), k + 1)
    IN  Go(results, 1)

\* where = {"unit_id": unit_id}
UnitFilter(unit_id) == [unit_id |-> unit_id]

\* where = {"$and": [{"unit_id": unit_id}, {"type": "location"}]}
LocationFilter(unit_id) == [unit_id |-> unit_id, type |-> "location"]

\* retrieve_with_priority(query, intent), when its query does not raise
RetrieveWithPriority(st, query, intent) ==
    RerankWithIntent(StoreQuery(st, "query", PriorityN, NoFilter), intent, TopK)

\* A variant that takes every unit id that is not empty.
AnyUnitId(unit_id) == unit_id # <<>>

\* A variant that takes a unit id of up to 50 characters.
ValidUnitIdUpToLimit(unit_id) ==
    /\ unit_id # <<>>
    /\ Len(unit_id) <= UnitIdLimit
    /\ \A k \in 1..Len(unit_id) : unit_id[k] # "\n"

\* if unit_id and len(unit_id) < 50 and '\n' not in unit_id
ValidUnitId(unit_id) ==
    /\ unit_id # <<>>
    /\ Len(unit_id) < UnitIdLimit
    /\ \A k \in 1..Len(unit_id) : unit_id[k] # "\n"

\* The unit names of the Stage-1 results: those found in the texts and the
\* unit_name fields.
ResolvedNames(stage1) ==
    (UNION {ExtractUnitNames(stage1[j].doc) : j \in 1..Len(stage1)})
        \cup ({MetaGet(stage1[j].meta, "unit_name") : j \in 1..Len(stage1)} \ {<<>>})

\* The unit ids of the Stage-1 results that pass the filter.
ResolvedIds(stage1) ==
    {u \in {MetaGet(stage1[j].meta, "unit_id") : j \in 1..Len(stage1)} : ValidUnitId(u)}

RECURSIVE Orders(_)
\* The orders a list made from the set s may have.
Orders(s) ==
    IF s = {} THEN {<<>>}
    ELSE UNION {{<<x>> \o rest : rest \in Orders(s \ {x})} : x \in s}

RECURSIVE SomeOrder(_)
\* One of them.
SomeOrder(s) ==
    IF s = {} THEN <<>>
    ELSE <<CHOOSE y \in s : TRUE>> \o SomeOrder(s \ {CHOOSE y \in s : TRUE})

(***************************************************************************)
(* retrieve(query, use_two_stage), one collection.query at a time          *)
(***************************************************************************)

VARIABLES
    store,           \* the collection: its chunks in insertion order
    pc,              \* where retrieve stands
    query,           \* the query text
    use_two_stage,   \* the flag of the call
    intent,          \* _get_query_intent(query)
    stage1_results,  \* the result of retrieve_stage1
    unit_names,      \* list(unit_names)
    unit_ids,        \* list(unit_ids)
    i,               \* the position of the running for loop in its list
    all_docs,        \* all_docs, all_metas, all_distances of retrieve_stage2
    stage2_results,  \* the result of retrieve_stage2, then of the rerank
    results,         \* docs, metas, dists of _append_location_chunks; what retrieve returns
    issued,          \* the collection.query calls of this request, in order
    faults,          \* how many of them raised
    text,            \* clean_text_advanced: the text given
    department,      \* clean_text_advanced: the department given
    cleaned,         \* what cleaning the text gave
    recleaned,       \* what cleaning that again gave
    cleaner_pc,      \* how far the cleaning went
    enriched,        \* enrich_content_with_locations of the cleaned text
    cleaned_enriched, \* what cleaning the enriched text gave
    content,         \* _extract_office_locations: the lines of the content given
    building_name,   \* _extract_office_locations: the building given
    line_no,         \* the line the loop stands before
    current_floor,   \* current_floor
    offices,         \* offices
    unit_name,       \* _normalize_unit_id: the name given
    unit_key,        \* what it returned
    earlier_key,     \* what it returned the time before
    normalizer_pc,   \* what was done last
    raw_items,       \* process: raw_items, as load_json_files returned them
    process_pc,      \* where process stands
    item_no,         \* the position of the running for loop in its list
    location_map,    \* location_map: its (key, value) pairs in insertion order
    valid_items,     \* valid_items
    all_chunks,      \* all_chunks
    suspended,       \* the locals of a second call of retrieve, while it does not run
    given_text,      \* _extract_unit_name_from_text: the text given
    detected_unit,   \* what it returned, "" for None
    detector_pc,     \* whether it was called
    api_key,         \* generate_response: whether an API key is given
    context_docs,    \* generate_response: the retrieval result given as context
    attempt,         \* attempt of the retry loop
    model_calls,     \* how many times model.generate_content was called
    waits,           \* the seconds given to time.sleep, in order
    answer,          \* the kind of answer string returned
    returned_docs,   \* the context returned with it
    responder_pc     \* where generate_response stands

engineVars == <<store, pc, query, use_two_stage, intent, stage1_results, unit_names, unit_ids, i,
                all_docs, stage2_results, results, issued, faults>>

cleanerVars == <<text, department, cleaned, recleaned, cleaner_pc, enriched, cleaned_enriched>>

extractorVars == <<content, building_name, line_no, current_floor, offices>>

normalizerVars == <<unit_name, unit_key, earlier_key, normalizer_pc>>

processVars == <<raw_items, process_pc, item_no, location_map, valid_items, all_chunks>>

schedulerVars == <<suspended>>

detectorVars == <<given_text, detected_unit, detector_pc>>

responderVars == <<api_key, context_docs, attempt, model_calls, waits, answer, returned_docs,
                   responder_pc>>

vars == <<engineVars, cleanerVars, extractorVars, normalizerVars, processVars, schedulerVars,
          detectorVars, responderVars>>

\* Nothing is being cleaned.
CleanerIdle ==
    /\ text = <<>>
    /\ department = "admin"
    /\ cleaned = [raised |-> FALSE, text |-> <<>>]
    /\ recleaned = [raised |-> FALSE, text |-> <<>>]
    /\ cleaner_pc = "idle"
    /\ enriched = <<>>
    /\ cleaned_enriched = [raised |-> FALSE, text |-> <<>>]

\* Nothing is being extracted.
ExtractorIdle ==
    /\ content = <<>>
    /\ building_name = <<>>
    /\ line_no = 1
    /\ current_floor = <<>>
    /\ offices = <<>>

\* Nothing is being normalized.
NormalizerIdle ==
    /\ unit_name = <<>>
    /\ unit_key = <<>>
    /\ earlier_key = <<>>
    /\ normalizer_pc = "idle"

\* process is not running.
ProcessIdle ==
    /\ raw_items = <<>>
    /\ process_pc = "idle"
    /\ item_no = 1
    /\ location_map = <<>>
    /\ valid_items = <<>>
    /\ all_chunks = <<>>

\* The locals of a call of retrieve that has not started.
IdleLocals ==
    [pc |-> "idle", query |-> <<>>, use_two_stage |-> TRUE, intent |-> "general",
     stage1_results |-> <<>>, unit_names |-> <<>>, unit_ids |-> <<>>, i |-> 1,
     all_docs |-> <<>>, stage2_results |-> <<>>, results |-> <<>>, issued |-> <<>>,
     faults |-> 0]

\* There is no second call.
NoneSuspended == suspended = IdleLocals

\* _extract_unit_name_from_text is not called.
DetectorIdle ==
    /\ given_text = <<>>
    /\ detected_unit = <<>>
    /\ detector_pc = "idle"

\* generate_response is not called.
ResponderIdle ==
    /\ api_key = TRUE
    /\ context_docs = <<>>
    /\ attempt = 0
    /\ model_calls = <<>>
    /\ waits = <<>>
    /\ answer = [kind |-> "none", location_lines |-> <<>>]
    /\ returned_docs = <<>>
    /\ responder_pc = "idle"

\* No request is being served.
EngineIdle ==
    /\ pc = "idle"
    /\ query = <<>>
    /\ use_two_stage = TRUE
    /\ intent = "general"
    /\ stage1_results = <<>>
    /\ unit_names = <<>>
    /\ unit_ids = <<>>
    /\ i = 1
    /\ all_docs = <<>>
    /\ stage2_results = <<>>
    /\ results = <<>>
    /\ issued = <<>>
    /\ faults = 0

Init ==
    /\ store \in Stores
    /\ EngineIdle
    /\ CleanerIdle
    /\ ExtractorIdle
    /\ NormalizerIdle
    /\ ProcessIdle
    /\ NoneSuspended
    /\ DetectorIdle
    /\ ResponderIdle

\* retrieve is called; the intent is computed.
Receive(q, two) ==
    /\ pc = "idle"
    /\ pc' = "classified"
    /\ query' = q
    /\ use_two_stage' = two
    /\ intent' = GetQueryIntent(q)
    /\ UNCHANGED <<store, stage1_results, unit_names, unit_ids, i, all_docs, stage2_results,
                   results, issued, faults>>
    /\ UNCHANGED <<cleanerVars, extractorVars, normalizerVars, processVars, schedulerVars,
                   detectorVars, responderVars>>

\* A call of collection.query is made: it raises (while the request has faults
\* left) or it answers.
Raises(raise, query_text, n, where) ==
    /\ raise => faults < MaxFaults
    /\ faults' = IF raise THEN faults + 1 ELSE faults
    /\ issued' = Append(issued, CallRecord(query_text, n, where, raise))

\* if not use_two_stage: return self.retrieve_with_priority(query, intent=intent)
SingleStage ==
    /\ pc = "classified"
    /\ ~use_two_stage
    /\ \E raise \in BOOLEAN :
         /\ Raises(raise, query, PriorityN, NoFilter)
         /\ pc' = IF raise THEN "raised" ELSE "done"
         /\ results' = IF raise THEN results ELSE RetrieveWithPriority(store, query, intent)
    /\ UNCHANGED <<store, query, use_two_stage, intent, stage1_results, unit_names, unit_ids, i,
                   all_docs, stage2_results>>
    /\ UNCHANGED <<cleanerVars, extractorVars, normalizerVars, processVars, schedulerVars,
                   detectorVars, responderVars>>

\* stage1_results = self.retrieve_stage1(query, n_results=5)
Stage1 ==
    /\ pc = "classified"
    /\ use_two_stage
    /\ \E raise \in BOOLEAN :
         /\ Raises(raise, query, Stage1N, NoFilter)
         /\ pc' = IF raise THEN "raised" ELSE "stage1"
         /\ stage1_results' = IF raise THEN stage1_results
                              ELSE StoreQuery(store, "query", Stage1N, NoFilter)
    /\ UNCHANGED <<store, query, use_two_stage, intent, unit_names, unit_ids, i, all_docs,
                   stage2_results, results>>
    /\ UNCHANGED <<cleanerVars, extractorVars, normalizerVars, processVars, schedulerVars,
                   detectorVars, responderVars>>

\* The unit names and ids are collected into sets and the sets made lists; the
\* order of a list made from a set is any.  The names are read only when there
\* is no unit id, so their order is chosen only then.
ResolveUnits ==
    /\ pc = "stage1"
    /\ \E names \in {ResolvedNames(stage1_results)}, ids \in {ResolvedIds(stage1_results)} :
         /\ names # {} \/ ids # {}
         /\ unit_ids' \in Orders(ids)
         /\ IF ids = {} THEN unit_names' \in Orders(names)
            ELSE unit_names' = SomeOrder(names)
    /\ pc' = "stage2_ids"
    /\ i' = 1
    /\ all_docs' = <<>>
    /\ UNCHANGED <<store, query, use_two_stage, intent, stage1_results, stage2_results, results,
                   issued, faults>>
    /\ UNCHANGED <<cleanerVars, extractorVars, normalizerVars, processVars, schedulerVars,
                   detectorVars, responderVars>>

\* if not unit_names and not unit_ids: return self.retrieve_with_priority(...)
NoUnit ==
    /\ pc = "stage1"
    /\ ResolvedIds(stage1_results) = {}
    /\ ResolvedNames(stage1_results) = {}
    /\ \E raise \in BOOLEAN :
         /\ Raises(raise, query, PriorityN, NoFilter)
         /\ pc' = IF raise THEN "raised" ELSE "done"
         /\ results' = IF raise THEN results ELSE RetrieveWithPriority(store, query, intent)
    /\ UNCHANGED <<store, query, use_two_stage, intent, stage1_results, unit_names, unit_ids, i,
                   all_docs, stage2_results>>
    /\ UNCHANGED <<cleanerVars, extractorVars, normalizerVars, processVars, schedulerVars,
                   detectorVars, responderVars>>

\* retrieve_stage2, for unit_id in unit_ids: the query filtered to the unit id.
\* When it raises, the except clause runs next.
Stage2Filtered ==
    /\ pc = "stage2_ids"
    /\ i <= Len(unit_ids)
    /\ \E raise \in BOOLEAN :
         /\ Raises(raise, query, Stage2N, UnitFilter(unit_ids[i]))
         /\ pc' = IF raise THEN "stage2_retry" ELSE "stage2_ids"
         /\ i' = IF raise THEN i ELSE i + 1
         /\ all_docs' = IF raise THEN all_docs
                        ELSE MergeUnseen(all_docs, StoreQuery(store, "query", Stage2N,
                                                              UnitFilter(unit_ids[i])))
    /\ UNCHANGED <<store, query, use_two_stage, intent, stage1_results, unit_names, unit_ids,
                   stage2_results, results>>
    /\ UNCHANGED <<cleanerVars, extractorVars, normalizerVars, processVars, schedulerVars,
                   detectorVars, responderVars>>

\* except Exception: the same query without the filter; nothing catches what
\* it raises.
Stage2Retry ==
    /\ pc = "stage2_retry"
    /\ \E raise \in BOOLEAN :
         /\ Raises(raise, query, Stage2N, NoFilter)
         /\ pc' = IF raise THEN "raised" ELSE "stage2_ids"
         /\ i' = IF raise THEN i ELSE i + 1
         /\ all_docs' = IF raise THEN all_docs
                        ELSE MergeUnseen(all_docs, StoreQuery(store, "query", Stage2N, NoFilter))
    /\ UNCHANGED <<store, query, use_two_stage, intent, stage1_results, unit_names, unit_ids,
                   stage2_results, results>>
    /\ UNCHANGED <<cleanerVars, extractorVars, normalizerVars, processVars, schedulerVars,
                   detectorVars, responderVars>>

\* if not all_docs and unit_names: for unit_name in unit_names: the query
\* "{unit_name} {query}" without a filter.
Stage2Name ==
    /\ \/ pc = "stage2_ids" /\ i > Len(unit_ids) /\ all_docs = <<>> /\ unit_names # <<>>
       \/ pc = "stage2_names" /\ i <= Len(unit_names)
    /\ \E raise \in BOOLEAN, k \in {IF pc = "stage2_ids" THEN 1 ELSE i} :
         /\ Raises(raise, unit_names[k] \o <<" ">> \o query, Stage2N, NoFilter)
         /\ pc' = IF raise THEN "raised" ELSE "stage2_names"
         /\ i' = k + 1
         /\ all_docs' = IF raise THEN all_docs
                        ELSE MergeUnseen(all_docs, StoreQuery(store, "named", Stage2N, NoFilter))
    /\ UNCHANGED <<store, query, use_two_stage, intent, stage1_results, unit_names, unit_ids,
                   stage2_results, results>>
    /\ UNCHANGED <<cleanerVars, extractorVars, normalizerVars, processVars, schedulerVars,
                   detectorVars, responderVars>>

\* retrieve_stage2 sorts what it merged by distance, cuts it to n_results and
\* returns it.
Stage2Return ==
    /\ \/ pc = "stage2_ids" /\ i > Len(unit_ids) /\ ~(all_docs = <<>> /\ unit_names # <<>>)
       \/ pc = "stage2_names" /\ i > Len(unit_names)
    /\ stage2_results' = Prefix(SortByDist(all_docs), Stage2N)
    /\ pc' = "stage2"
    /\ UNCHANGED <<store, query, use_two_stage, intent, stage1_results, unit_names, unit_ids, i,
                   all_docs, results, issued, faults>>
    /\ UNCHANGED <<cleanerVars, extractorVars, normalizerVars, processVars, schedulerVars,
                   detectorVars, responderVars>>

\* stage2_results = self._rerank_with_intent(..., intent=intent, top_k=5);
\* _append_location_chunks starts from copies of its lists.
Rerank ==
    /\ pc = "stage2"
    /\ stage2_results' = RerankWithIntent(stage2_results, intent, TopK)
    /\ results' = stage2_results'
    /\ pc' = "augment_ids"
    /\ i' = 1
    /\ UNCHANGED <<store, query, use_two_stage, intent, stage1_results, unit_names, unit_ids,
                   all_docs, issued, faults>>
    /\ UNCHANGED <<cleanerVars, extractorVars, normalizerVars, processVars, schedulerVars,
                   detectorVars, responderVars>>

\* _append_location_chunks, for unit_id in unit_ids: the query filtered to the
\* unit id and the location type.  When it raises, the except clause runs next.
AugmentFiltered ==
    /\ pc = "augment_ids"
    /\ i <= Len(unit_ids)
    /\ \E raise \in BOOLEAN :
         /\ Raises(raise, unit_ids[i], MaxPerUnit, LocationFilter(unit_ids[i]))
         /\ pc' = IF raise THEN "augment_retry" ELSE "augment_ids"
         /\ i' = IF raise THEN i ELSE i + 1
         /\ results' = IF raise THEN results
                       ELSE AppendUnseen(results, OnlyLocation(
                                StoreQuery(store, "unit", MaxPerUnit, LocationFilter(unit_ids[i]))))
    /\ UNCHANGED <<store, query, use_two_stage, intent, stage1_results, unit_names, unit_ids,
                   all_docs, stage2_results>>
    /\ UNCHANGED <<cleanerVars, extractorVars, normalizerVars, processVars, schedulerVars,
                   detectorVars, responderVars>>

\* except Exception: the same query without the filter; nothing catches what
\* it raises.
AugmentRetry ==
    /\ pc = "augment_retry"
    /\ \E raise \in BOOLEAN :
         /\ Raises(raise, unit_ids[i], MaxPerUnit, NoFilter)
         /\ pc' = IF raise THEN "raised" ELSE "augment_ids"
         /\ i' = IF raise THEN i ELSE i + 1
         /\ results' = IF raise THEN results
                       ELSE AppendUnseen(results, OnlyLocation(
                                StoreQuery(store, "unit", MaxPerUnit, NoFilter)))
    /\ UNCHANGED <<store, query, use_two_stage, intent, stage1_results, unit_names, unit_ids,
                   all_docs, stage2_results>>
    /\ UNCHANGED <<cleanerVars, extractorVars, normalizerVars, processVars, schedulerVars,
                   detectorVars, responderVars>>

\* if not unit_ids: for unit_name in unit_names: the query of the name, without
\* a filter.
AugmentName ==
    /\ \/ pc = "augment_ids" /\ unit_ids = <<>> /\ unit_names # <<>>
       \/ pc = "augment_names" /\ i <= Len(unit_names)
    /\ \E raise \in BOOLEAN, k \in {IF pc = "augment_ids" THEN 1 ELSE i} :
         /\ Raises(raise, unit_names[k], MaxPerUnit, NoFilter)
         /\ pc' = IF raise THEN "raised" ELSE "augment_names"
         /\ i' = k + 1
         /\ results' = IF raise THEN results
                       ELSE AppendUnseen(results, OnlyLocation(
                                StoreQuery(store, "unit", MaxPerUnit, NoFilter)))
    /\ UNCHANGED <<store, query, use_two_stage, intent, stage1_results, unit_names, unit_ids,
                   all_docs, stage2_results>>
    /\ UNCHANGED <<cleanerVars, extractorVars, normalizerVars, processVars, schedulerVars,
                   detectorVars, responderVars>>

\* _append_location_chunks returns its lists, and retrieve returns them.
AugmentReturn ==
    /\ \/ pc = "augment_ids" /\ i > Len(unit_ids) /\ (unit_ids # <<>> \/ unit_names = <<>>)
       \/ pc = "augment_names" /\ i > Len(unit_names)
    /\ pc' = "done"
    /\ UNCHANGED <<store, query, use_two_stage, intent, stage1_results, unit_names, unit_ids, i,
                   all_docs, stage2_results, results, issued, faults>>
    /\ UNCHANGED <<cleanerVars, extractorVars, normalizerVars, processVars, schedulerVars,
                   detectorVars, responderVars>>

\* The caller has the result, or the exception; the engine waits for the next
\* call.
Return ==
    /\ pc \in {"done", "raised"}
    /\ pc' = "idle"
    /\ query' = <<>>
    /\ use_two_stage' = TRUE
    /\ intent' = "general"
    /\ stage1_results' = <<>>
    /\ unit_names' = <<>>
    /\ unit_ids' = <<>>
    /\ i' = 1
    /\ all_docs' = <<>>
    /\ stage2_results' = <<>>
    /\ results' = <<>>
    /\ issued' = <<>>
    /\ faults' = 0
    /\ UNCHANGED store
    /\ UNCHANGED <<cleanerVars, extractorVars, normalizerVars, processVars, schedulerVars,
                   detectorVars, responderVars>>

Next ==
    \/ \E q \in Queries, two \in BOOLEAN : Receive(q, two)
    \/ SingleStage
    \/ Stage1
    \/ ResolveUnits
    \/ NoUnit
    \/ Stage2Filtered
    \/ Stage2Retry
    \/ Stage2Name
    \/ Stage2Return
    \/ Rerank
    \/ AugmentFiltered
    \/ AugmentRetry
    \/ AugmentName
    \/ AugmentReturn
    \/ Return

Spec == Init /\ [][Next]_vars

(***************************************************************************)
(* clean_text_advanced, applied to a text and then to its own result       *)
(***************************************************************************)

\* The most lines of a text given to the cleaner.
MaxCleanLines == 4

\* The lines the texts are made of: a room number, a name, a bare header
\* mark, an entry as the cleaner writes it, a floor, and the empty line.
CleanLines ==
    { S("101"), S("A"), S("##"), S("- 101 A (A)"), S("2") \o <<"lou">>, <<>> }

\* The texts given to the cleaner.
CleanTexts ==
    { JoinLines(ls) : ls \in UNION {[1..n -> CleanLines] : n \in 0..MaxCleanLines} }

Departments == {"admin", "aca"}

InitClean ==
    /\ store = <<>>
    /\ EngineIdle
    /\ ExtractorIdle
    /\ NormalizerIdle
    /\ ProcessIdle
    /\ NoneSuspended
    /\ DetectorIdle
    /\ ResponderIdle
    /\ text \in CleanTexts
    /\ department \in Departments
    /\ cleaned = [raised |-> FALSE, text |-> <<>>]
    /\ recleaned = [raised |-> FALSE, text |-> <<>>]
    /\ cleaner_pc = "given"
    /\ enriched = <<>>
    /\ cleaned_enriched = [raised |-> FALSE, text |-> <<>>]

\* clean_text_advanced(text, dept) is called.
Clean ==
    /\ cleaner_pc = "given"
    /\ cleaned' = CleanTextAdvanced(text, department)
    /\ cleaner_pc' = IF cleaned'.raised THEN "raised" ELSE "cleaned"
    /\ UNCHANGED <<text, department, recleaned, enriched, cleaned_enriched>>
    /\ UNCHANGED <<engineVars, extractorVars, normalizerVars, processVars, schedulerVars,
                   detectorVars, responderVars>>

\* clean_text_advanced is called on what it returned.
CleanAgain ==
    /\ cleaner_pc = "cleaned"
    /\ recleaned' = CleanTextAdvanced(cleaned.text, department)
    /\ cleaner_pc' = IF recleaned'.raised THEN "raised again" ELSE "recleaned"
    /\ UNCHANGED <<text, department, cleaned, enriched, cleaned_enriched>>
    /\ UNCHANGED <<engineVars, extractorVars, normalizerVars, processVars, schedulerVars,
                   detectorVars, responderVars>>

NextClean ==
    \/ Clean
    \/ CleanAgain

SpecClean == InitClean /\ [][NextClean]_vars

\* C1: cleaning the result of a cleaning gives that result again.
C1_CleanIdempotent ==
    /\ cleaner_pc = "recleaned" => recleaned = cleaned
    /\ cleaner_pc # "raised again"

(***************************************************************************)
(* _extract_office_locations, one line at a time                           *)
(***************************************************************************)

\* The most lines of a content given to the extractor.
MaxExtractLines == 4

\* The lines the contents are made of: two floor headers, two office entries
\* and a line that is neither.
ExtractLines ==
    { S("## 1") \o <<"lou">>,
      S("2") \o <<"lou">>,
      S("- 106 ") \o ZhuCeZu \o S(" (Registrar)"),
      S("- B1 ") \o JiaoWuChu,
      S("hello") }

\* The contents given to the extractor.
ExtractTexts ==
    { JoinLines(ls) : ls \in UNION {[1..n -> ExtractLines] : n \in 0..MaxExtractLines} }

InitExtract ==
    /\ store = <<>>
    /\ EngineIdle
    /\ CleanerIdle
    /\ NormalizerIdle
    /\ ProcessIdle
    /\ NoneSuspended
    /\ DetectorIdle
    /\ ResponderIdle
    /\ content \in ExtractTexts
    /\ building_name \in {AdminBuilding, S("Lib")}
    /\ line_no = 1
    /\ current_floor = <<>>
    /\ offices = <<>>

\* The line the loop stands before, stripped.
CurrentLine == Strip(SplitLines(content)[line_no])

\* The loop body runs on the line the loop stands before.
ReadLine ==
    /\ \E st \in {ExtractLine([current_floor |-> current_floor, offices |-> offices],
                              SplitLines(content)[line_no], building_name)} :
         /\ current_floor' = st.current_floor
         /\ offices' = st.offices
    /\ line_no' = line_no + 1
    /\ UNCHANGED <<content, building_name>>
    /\ UNCHANGED <<engineVars, cleanerVars, normalizerVars, processVars, schedulerVars,
                   detectorVars, responderVars>>

\* if floor_match: current_floor = floor_match.group(1); continue
ReadFloorHeader ==
    /\ line_no <= Len(SplitLines(content))
    /\ FloorMatch(CurrentLine) # <<>>
    /\ ReadLine

\* if office_match and current_floor: offices.append({...})
ReadOfficeEntry ==
    /\ line_no <= Len(SplitLines(content))
    /\ FloorMatch(CurrentLine) = <<>>
    /\ OfficeMatch(CurrentLine).matched /\ current_floor # <<>>
    /\ ReadLine

\* Any other line: the loop goes on to the next.
SkipLine ==
    /\ line_no <= Len(SplitLines(content))
    /\ FloorMatch(CurrentLine) = <<>>
    /\ ~(OfficeMatch(CurrentLine).matched /\ current_floor # <<>>)
    /\ ReadLine

NextExtract ==
    \/ ReadFloorHeader
    \/ ReadOfficeEntry
    \/ SkipLine

SpecExtract == InitExtract /\ [][NextExtract]_vars

\* The lines among the first n of the content that are floor headers.
HeadersIn(n) == {k \in 1..n : FloorMatch(Strip(SplitLines(content)[k])) # <<>>}

\* The lines among the first n that are office entries below a floor header.
EntriesIn(n) ==
    {k \in 1..n : /\ k \notin HeadersIn(n)
                  /\ OfficeMatch(Strip(SplitLines(content)[k])).matched
                  /\ \E h \in HeadersIn(n) : h < k}

\* The last floor header above line k.
HeaderAbove(k) == CHOOSE h \in HeadersIn(k - 1) : \A g \in HeadersIn(k - 1) : g <= h

\* The record of the office entry at line k.
RecordOf(k) ==
    [building |-> building_name,
     floor    |-> FloorMatch(Strip(SplitLines(content)[HeaderAbove(k)])),
     room     |-> OfficeMatch(Strip(SplitLines(content)[k])).room,
     name_zh  |-> OfficeMatch(Strip(SplitLines(content)[k])).name_zh,
     name_en  |-> OfficeMatch(Strip(SplitLines(content)[k])).name_en]

\* C6: after any number of lines, offices holds one record for each office
\* entry read that stands below a floor header, in the order of the lines, with
\* the given building, the floor of the last header above the entry and the
\* room and names of the entry; current_floor is the floor of the last header
\* read; "## 1樓" followed by "- 106 註冊組 (Registrar)" gives floor "1樓", room
\* "106", name_zh "註冊組" and name_en "Registrar".
C6_ExtractorStateMachine ==
    /\ Len(offices) = Cardinality(EntriesIn(line_no - 1))
    /\ \A n \in 1..Len(offices) :
          \E k \in EntriesIn(line_no - 1) :
              /\ Cardinality({j \in EntriesIn(line_no - 1) : j < k}) = n - 1
              /\ offices[n] = RecordOf(k)
    /\ current_floor = IF HeadersIn(line_no - 1) = {} THEN <<>>
                       ELSE FloorMatch(Strip(SplitLines(content)[HeaderAbove(line_no)]))
    /\ (content = S("## 1") \o <<"lou", "\n">> \o S("- 106 ") \o ZhuCeZu \o S(" (Registrar)")
          /\ line_no = 3)
       => offices = << [building |-> building_name, floor |-> S("1") \o <<"lou">>,
                        room |-> S("106"), name_zh |-> ZhuCeZu, name_en |-> S("Registrar")] >>

\* All four lines of a content were read: an office entry above every header,
\* a floor header, a line that is neither and an office entry, which gave the
\* one record, on the floor of the header.
C6_Witness ==
    /\ Len(SplitLines(content)) = 4
    /\ line_no = 5
    /\ HeadersIn(4) = {2}
    /\ OfficeMatch(Strip(SplitLines(content)[1])).matched
    /\ ~OfficeMatch(Strip(SplitLines(content)[3])).matched
    /\ EntriesIn(4) = {4}
    /\ Len(offices) = 1
    /\ offices[1].floor = FloorMatch(Strip(SplitLines(content)[2]))

(***************************************************************************)
(* _normalize_unit_id, applied to a name, to its own result and to the     *)
(* name written another way                                                *)
(***************************************************************************)

\* The most characters of a name given to the normalizer.
MaxNameLen == 3

\* The characters the names are made of.
NameChars == {"A", "a", "zu", " ", "fw("}

\* The names given to the normalizer.
UnitNames == UNION {[1..n -> NameChars] : n \in 0..MaxNameLen}

\* The characters the pattern of _normalize_unit_id removes.
Removed == WhiteSpace \cup NormalizePunctuation

\* The Latin letters.
Capitals ==
    {"A", "B", "C", "D", "E", "F", "G", "H", "I", "J", "K", "L", "M",
     "N", "O", "P", "Q", "R", "S", "T", "U", "V", "W", "X", "Y", "Z"}

\* The letter in its other case; any other character as it is.
SwapCase(c) ==
    IF c \in Capitals THEN LowerChar(c)
    ELSE IF \E C \in Capitals : LowerChar(C) = c THEN CHOOSE C \in Capitals : LowerChar(C) = c
    ELSE c

InitNorm ==
    /\ store = <<>>
    /\ EngineIdle
    /\ CleanerIdle
    /\ ExtractorIdle
    /\ ProcessIdle
    /\ NoneSuspended
    /\ DetectorIdle
    /\ ResponderIdle
    /\ unit_name \in UnitNames
    /\ unit_key = <<>>
    /\ earlier_key = <<>>
    /\ normalizer_pc = "given"

\* _normalize_unit_id(unit_name) is called.
Normalize ==
    /\ normalizer_pc = "given"
    /\ unit_key' = NormalizeUnitId(unit_name)
    /\ normalizer_pc' = "normalized"
    /\ UNCHANGED <<unit_name, earlier_key>>
    /\ UNCHANGED <<engineVars, cleanerVars, extractorVars, processVars, schedulerVars,
                   detectorVars, responderVars>>

\* _normalize_unit_id is called on what it returned.
NormalizeAgain ==
    /\ normalizer_pc = "normalized"
    /\ earlier_key' = unit_key
    /\ unit_key' = NormalizeUnitId(unit_key)
    /\ normalizer_pc' = "normalized again"
    /\ UNCHANGED unit_name
    /\ UNCHANGED <<engineVars, cleanerVars, extractorVars, processVars, schedulerVars,
                   detectorVars, responderVars>>

\* The name is normalized once more, now as new_name.
Renormalize(new_name, how) ==
    /\ normalizer_pc = "normalized"
    /\ unit_name' = new_name
    /\ earlier_key' = unit_key
    /\ unit_key' = NormalizeUnitId(new_name)
    /\ normalizer_pc' = how
    /\ UNCHANGED <<engineVars, cleanerVars, extractorVars, processVars, schedulerVars,
                   detectorVars, responderVars>>

\* ... with a removed character put in at position p.
NormalizeWithInserted(p, c) ==
    Renormalize(SubSeq(unit_name, 1, p - 1) \o <<c>> \o SubSeq(unit_name, p, Len(unit_name)),
                "inserted")

\* ... with the removed character at position p left out.
NormalizeWithoutRemoved(p) ==
    /\ unit_name[p] \in Removed
    /\ Renormalize(SubSeq(unit_name, 1, p - 1) \o SubSeq(unit_name, p + 1, Len(unit_name)),
                   "left out")

\* ... with the letter at position p in its other case.
NormalizeWithOtherCase(p) ==
    /\ SwapCase(unit_name[p]) # unit_name[p]
    /\ Renormalize([unit_name EXCEPT ![p] = SwapCase(unit_name[p])], "other case")

NextNorm ==
    \/ Normalize
    \/ NormalizeAgain
    \/ \E p \in 1..(Len(unit_name) + 1), c \in Removed : NormalizeWithInserted(p, c)
    \/ \E p \in 1..Len(unit_name) : NormalizeWithoutRemoved(p)
    \/ \E p \in 1..Len(unit_name) : NormalizeWithOtherCase(p)

SpecNorm == InitNorm /\ [][NextNorm]_vars

\* C8: _normalize_unit_id returns a value for every name; normalizing its
\* result returns the result; and a name with a white-space character, a listed
\* punctuation mark or bracket put in or left out, or with a letter in its
\* other case, has the key the name had.
C8_NormalizeInsensitive ==
    /\ normalizer_pc \in {"normalized again", "inserted", "left out", "other case"}
          => unit_key = earlier_key
    /\ \A k \in 1..Len(unit_key) : unit_key[k] \notin Removed /\ unit_key[k] \notin Capitals

\* A name with a capital in it got the key it had before a full-width bracket
\* was put into it.
C8_Witness ==
    /\ normalizer_pc = "inserted"
    /\ unit_key = earlier_key
    /\ unit_key # <<>>
    /\ \E k \in 1..Len(unit_name) : unit_name[k] \in Capitals
    /\ \E k \in 1..Len(unit_name) : unit_name[k] = "fw["

(***************************************************************************)
(* Properties of retrieve                                                  *)
(***************************************************************************)

\* The metadata is of a location chunk of the unit u.
IsLocationOf(meta, u) == MetaGet(meta, "type") = "location" /\ MetaGet(meta, "unit_id") = u

\* The store holds a location chunk of the unit u.
StoreHasLocation(u) == \E k \in 1..Len(store) : IsLocationOf(store[k].metadata, u)

\* The entries are in ascending order of distance.
Ascends(entries) ==
    \A a, b \in 1..Len(entries) : a < b => entries[a].dist <= entries[b].dist

\* C2: when a two-stage retrieve in which no store query raised returns, then
\* for every resolved unit id of which the store holds a location chunk the
\* result holds a location chunk of that unit.
C2_LocationCoverage ==
    (pc = "done" /\ use_two_stage /\ faults = 0) =>
        \A k \in 1..Len(unit_ids) :
            StoreHasLocation(unit_ids[k]) =>
                \E j \in 1..Len(results) : IsLocationOf(results[j].meta, unit_ids[k])

\* A two-stage retrieve without a raise has returned a location chunk of a
\* resolved unit that the rerank had cut and the augmentation appended.
C2_Witness ==
    /\ pc = "done" /\ use_two_stage /\ faults = 0
    /\ \E k \in 1..Len(unit_ids) :
         /\ StoreHasLocation(unit_ids[k])
         /\ \A j \in 1..Len(stage2_results) : ~IsLocationOf(stage2_results[j].meta, unit_ids[k])
         /\ \E j \in 1..Len(results) : IsLocationOf(results[j].meta, unit_ids[k])

\* C3: in the result retrieve returns, no two entries have the same fingerprint
\* (url, title, first 80 characters of the text).
C3_DedupInvariant ==
    pc = "done" =>
        \A a, b \in 1..Len(results) : a # b => Fingerprint(results[a]) # Fingerprint(results[b])

\* C4 as claimed: the distances of the result retrieve returns are in ascending
\* order, the entries appended by the augmentation included.
C4_SortedAfterAugmentation == pc = "done" => Ascends(results)

\* The entries of the returned result that the rerank gave: all of them when
\* no unit was resolved or one stage was asked for, else the first ones.
RerankedPart ==
    IF unit_ids = <<>> /\ unit_names = <<>> THEN results
    ELSE Prefix(results, Len(stage2_results))

\* C4 as amended: the part of the returned result that the rerank gave is in
\* ascending order of distance, and in a two-stage result it is the result of
\* the rerank, which the appended entries follow.
C4_RerankedPartSorted ==
    pc = "done" =>
        /\ Ascends(RerankedPart)
        /\ Len(RerankedPart) <= TopK
        /\ (unit_ids # <<>> \/ unit_names # <<>>) => RerankedPart = stage2_results

\* A returned result in which the boost moved an entry ahead of one that was
\* nearer before the boost.
C4_Witness ==
    /\ pc = "done"
    /\ \E a, b \in 1..Len(RerankedPart) :
         /\ a < b
         /\ ApplyTypeBoost(RerankedPart[a].meta, 100, intent) < 100
         /\ ApplyTypeBoost(RerankedPart[b].meta, 100, intent) = 100
         /\ RerankedPart[a].dist + (100 - ApplyTypeBoost(RerankedPart[a].meta, 100, intent))
                > RerankedPart[b].dist

UnitIdFilters == {k \in 1..Len(issued) : "unit_id" \in DOMAIN issued[k].where}

\* The location chunks of the store whose office names normalize to the key u.
SameOffice(u) ==
    {k \in 1..Len(store) :
        /\ MetaGet(store[k].metadata, "type") = "location"
        /\ NormalizeUnitId(MetaGet(store[k].metadata, "unit_name")) = u}

\* C7: location chunks of offices whose names normalize alike carry one unit
\* id, the normalized name; in a two-stage retrieve that unit id is resolved
\* once, so that one filtered Stage-2 query and one filtered augmentation query
\* are made for it, and the filter of each matches all of those chunks.
C7_JoinKey ==
    /\ \A a, b \in 1..Len(store) :
          ( /\ MetaGet(store[a].metadata, "type") = "location"
            /\ MetaGet(store[b].metadata, "type") = "location"
            /\ NormalizeUnitId(store[a].metadata.unit_name)
                 = NormalizeUnitId(store[b].metadata.unit_name) )
          => store[a].metadata.unit_id = store[b].metadata.unit_id
    /\ \A a, b \in 1..Len(unit_ids) : a # b => unit_ids[a] # unit_ids[b]
    /\ \A a, b \in UnitIdFilters : a # b => issued[a].where # issued[b].where
    /\ \A k \in UnitIdFilters : \A c \in SameOffice(issued[k].where.unit_id) :
          Matches(store[c].metadata, issued[k].where)

\* A two-stage retrieve has returned from a store with two location chunks
\* whose office names differ as written and normalize alike: one unit id was
\* resolved, with one filtered query in Stage 2 and one in the augmentation,
\* and both chunks are in the result.
C7_Witness ==
    /\ pc = "done" /\ use_two_stage /\ faults = 0
    /\ Len(unit_ids) = 1
    /\ Cardinality(UnitIdFilters) = 2
    /\ \E a, b \in SameOffice(unit_ids[1]) :
         /\ store[a].metadata.unit_name # store[b].metadata.unit_name
         /\ \E j \in 1..Len(results) : results[j].doc = store[a].text
         /\ \E j \in 1..Len(results) : results[j].doc = store[b].text

\* C9: every unit id in a filter sent to the store is at most 50 characters
\* long and has no line break in it.
C9_NoMalformedUnitIdInFilter ==
    \A k \in UnitIdFilters :
        /\ Len(issued[k].where.unit_id) <= UnitIdLimit
        /\ \A j \in 1..Len(issued[k].where.unit_id) : issued[k].where.unit_id[j] # "\n"

\* Stage 1 returned a unit id that is too long or has a line break in it, and
\* filtered queries were made.
C9_Witness ==
    /\ UnitIdFilters # {}
    /\ \E j \in 1..Len(stage1_results) :
         /\ MetaGet(stage1_results[j].meta, "unit_id") # <<>>
         /\ ~ValidUnitId(MetaGet(stage1_results[j].meta, "unit_id"))

\* C10: a store query that raised is followed by the same query without a
\* filter, a query without a filter that raised leaves its branch empty, and
\* retrieve never ends with the exception.
C10_FailurePolicy ==
    /\ pc # "raised"
    /\ \A k \in 1..Len(issued) :
          (issued[k].raised /\ issued[k].where # NoFilter /\ k < Len(issued)) =>
              /\ issued[k + 1].where = NoFilter
              /\ issued[k + 1].query_text = issued[k].query_text

(***************************************************************************)
(* The dict retrieve returns                                               *)
(***************************************************************************)

\* A variant that returns bare empty lists when there is no entry.
ResultDictFlatWhenEmpty(entries) ==
    IF entries = <<>> THEN [documents |-> <<>>, metadatas |-> <<>>, distances |-> <<>>]
    ELSE [documents |-> << [k \in 1..Len(entries) |-> entries[k].doc] >>,
          metadatas |-> << [k \in 1..Len(entries) |-> entries[k].meta] >>,
          distances |-> << [k \in 1..Len(entries) |-> entries[k].dist] >>]

\* {'documents': [list(docs)], 'metadatas': [list(metas)], 'distances': [list(dists)]}
\* and, for no entry, {'documents': [[]], 'metadatas': [[]], 'distances': [[]]}
ResultDict(entries) ==
    [documents |-> << [k \in 1..Len(entries) |-> entries[k].doc] >>,
     metadatas |-> << [k \in 1..Len(entries) |-> entries[k].meta] >>,
     distances |-> << [k \in 1..Len(entries) |-> entries[k].dist] >>]

\* The result without an entry.
EmptyResult == [documents |-> << <<>> >>, metadatas |-> << <<>> >>, distances |-> << <<>> >>]

\* The dict has one list of documents, one of metadatas and one of distances,
\* of one length.
WellFormed(r) ==
    /\ Len(r.documents) = 1 /\ Len(r.metadatas) = 1 /\ Len(r.distances) = 1
    /\ Len(r.documents[1]) = Len(r.metadatas[1])
    /\ Len(r.documents[1]) = Len(r.distances[1])

\* C11: what retrieve returns has documents, metadatas and distances of one
\* length; a retrieve in which no store query raised does not raise, however
\* few results the store gave; from a store that gives nothing at any stage it
\* returns the empty result; and when the augmentation finds nothing for the
\* resolved unit ids the reranked Stage-2 result is returned as it is.
C11_WellFormedResult ==
    /\ faults = 0 => pc # "raised"
    /\ pc = "done" => WellFormed(ResultDict(results))
    /\ (pc = "done" /\ store = <<>>) => ResultDict(results) = EmptyResult
    /\ (pc = "done" /\ faults = 0 /\ unit_ids # <<>>
          /\ \A k \in 1..Len(unit_ids) : ~StoreHasLocation(unit_ids[k]))
       => results = stage2_results

\* A two-stage retrieve over the empty store has returned: Stage 1 and the
\* query of retrieve_with_priority gave nothing, and the result is empty.
C11_Witness ==
    /\ pc = "done" /\ use_two_stage
    /\ store = <<>>
    /\ Len(issued) = 2
    /\ ResultDict(results) = EmptyResult

(***************************************************************************)
(* DataProcessor.enrich_content_with_locations                             *)
(***************************************************************************)

\* ord(c) of the code points that the sorted note lines are compared by.
CodePoint(c) ==
    CASE c = "zhu" -> 35387 [] c = "ce" -> 20874 [] c = "zu" -> 32068
      [] c = "jiao" -> 25945 [] c = "wu4" -> 21209 [] c = "chu" -> 34389
      [] c = "wei" -> 20301 [] c = "zhi" -> 32622 [] c = "fw:" -> 65306
      [] c = "xing" -> 34892 [] c = "zheng" -> 25919 [] c = "da" -> 22823
      [] c = "lou" -> 27155 [] c = "shi" -> 23460
      [] c = "zhu3" -> 20027 [] c = "ren4" -> 20219 [] c = "mi4" -> 31192 [] c = "shu" -> 26360
      [] OTHER -> 31 + Find(S(" !_#$%&'()*+,-./0123456789:;<=>?@ABCDEFGHIJKLMNOPQRSTUVWXYZ"), <<c>>)

RECURSIVE StrLess(_, _)
\* a < b of two strings
StrLess(a, b) ==
    IF b = <<>> THEN FALSE
    ELSE IF a = <<>> THEN TRUE
    ELSE IF CodePoint(a[1]) # CodePoint(b[1]) THEN CodePoint(a[1]) < CodePoint(b[1])
    ELSE StrLess(Tail(a), Tail(b))

RECURSIVE SortedStrings(_)
\* sorted(list(set(added_locations)))
SortedStrings(strings) ==
    IF strings = {} THEN <<>>
    ELSE LET least == CHOOSE a \in strings : \A b \in strings \ {a} : StrLess(a, b)
         IN  <<least>> \o SortedStrings(strings \ {least})

RECURSIVE StrOfList(_)
\* str(added_locations) without its opening bracket: 'a', 'b']
StrOfList(list) ==
    IF list = <<>> THEN <<"]">>
    ELSE <<"'">> \o list[1] \o <<"'">> \o (IF Len(list) > 1 THEN <<",", " ">> ELSE <<>>)
           \o StrOfList(Tail(list))

RECURSIVE AddedLocations(_, _, _)
\* The loop over location_map.items(): added_locations after it, from the
\* first pair of map on.
AddedLocations(doc_content, map, added) ==
    IF map = <<>> THEN added
    ELSE LET note == map[1].key \o <<"wei", "zhi", "fw:">>
         IN  IF Contains(doc_content, map[1].key) /\ ~Contains(<<"[">> \o StrOfList(added), note)
             THEN AddedLocations(doc_content, Tail(map), Append(added, note \o map[1].value))
             ELSE AddedLocations(doc_content, Tail(map), added)

\* enrich_content_with_locations(content, location_map)
EnrichContentWithLocations(doc_content, map) ==
    IF doc_content = <<>> THEN <<>>
    ELSE LET added == AddedLocations(doc_content, map, <<>>)
         IN  IF added = <<>> THEN doc_content
             ELSE doc_content \o <<"\n", "\n">> \o EnrichmentMarker \o <<"\n">>
                    \o JoinLines(SortedStrings({added[k] : k \in 1..Len(added)}))

(***************************************************************************)
(* A text is cleaned, enriched and cleaned again                           *)
(***************************************************************************)

\* The most lines of a text that is cleaned and enriched.
MaxEnrichLines == 3

\* An office and an office whose name ends in the name of the first.
MiShuShi == <<"mi4", "shu", "shi">>

ZhuRenMiShuShi == <<"zhu3", "ren4">> \o MiShuShi

\* The lines of those texts: three office names, a bare header mark, the marker
\* of an enrichment block, and a room number.
EnrichLines ==
    { ZhuCeZu, JiaoWuChu \o S(" A"), ZhuRenMiShuShi, S("##"), EnrichmentMarker, S("101") }

EnrichTexts ==
    { JoinLines(ls) : ls \in UNION {[1..n -> EnrichLines] : n \in 0..MaxEnrichLines} }

\* "{building} {floor} {room}室"
LocInfo(floor, room) == AdminBuilding \o <<" ">> \o floor \o <<" ">> \o room \o <<"shi">>

\* The location maps given: none, one office, two offices, and two offices of
\* which the name of the second ends the name of the first.
LocationMaps ==
    { <<>>,
      << [key |-> ZhuRenMiShuShi, value |-> LocInfo(S("2") \o <<"lou">>, S("201"))],
         [key |-> MiShuShi, value |-> LocInfo(S("2") \o <<"lou">>, S("202"))] >>,
      << [key |-> ZhuCeZu, value |-> LocInfo(S("1") \o <<"lou">>, S("106"))] >>,
      << [key |-> ZhuCeZu, value |-> LocInfo(S("1") \o <<"lou">>, S("106"))],
         [key |-> JiaoWuChu, value |-> LocInfo(S("B1"), S("12"))] >> }

InitEnrich ==
    /\ store = <<>>
    /\ EngineIdle
    /\ ExtractorIdle
    /\ NormalizerIdle
    /\ raw_items = <<>> /\ process_pc = "idle" /\ item_no = 1
    /\ valid_items = <<>> /\ all_chunks = <<>>
    /\ NoneSuspended
    /\ DetectorIdle
    /\ ResponderIdle
    /\ location_map \in LocationMaps
    /\ text \in EnrichTexts
    /\ department \in Departments
    /\ cleaned = [raised |-> FALSE, text |-> <<>>]
    /\ recleaned = [raised |-> FALSE, text |-> <<>>]
    /\ cleaner_pc = "given"
    /\ enriched = <<>>
    /\ cleaned_enriched = [raised |-> FALSE, text |-> <<>>]

\* clean_content = self.enrich_content_with_locations(clean_content, self.location_map)
EnrichCleaned ==
    /\ cleaner_pc \in {"recleaned", "raised again"}
    /\ enriched' = EnrichContentWithLocations(cleaned.text, location_map)
    /\ cleaner_pc' = "enriched"
    /\ UNCHANGED <<text, department, cleaned, recleaned, cleaned_enriched>>
    /\ UNCHANGED <<engineVars, extractorVars, normalizerVars, processVars, schedulerVars,
                   detectorVars, responderVars>>

\* The next run: clean_text_advanced is called on the enriched text.
CleanEnriched ==
    /\ cleaner_pc = "enriched"
    /\ cleaned_enriched' = CleanTextAdvanced(enriched, department)
    /\ cleaner_pc' = "enriched cleaned"
    /\ UNCHANGED <<text, department, cleaned, recleaned, enriched>>
    /\ UNCHANGED <<engineVars, extractorVars, normalizerVars, processVars, schedulerVars,
                   detectorVars, responderVars>>

NextEnrich ==
    \/ Clean
    \/ CleanAgain
    \/ EnrichCleaned
    \/ CleanEnriched

SpecEnrich == InitEnrich /\ [][NextEnrich]_vars

\* C13: cleaning the enriched form of a cleaned text gives what cleaning the
\* cleaned text itself gives, whatever the location map and the department;
\* and nothing the cleaner returns has the enrichment marker in it.
C13_EnrichmentStripped ==
    /\ cleaner_pc = "enriched cleaned" => cleaned_enriched = recleaned
    /\ ~Contains(cleaned.text, EnrichmentMarker)
    /\ ~Contains(recleaned.text, EnrichmentMarker)
    /\ ~Contains(cleaned_enriched.text, EnrichmentMarker)

\* A text that had an enrichment block was cleaned; the cleaned text names two
\* offices of the map and got a note of two lines, and cleaning it again gave
\* what cleaning the cleaned text gave.
C13_Witness ==
    /\ cleaner_pc = "enriched cleaned"
    /\ Contains(text, EnrichmentMarker)
    /\ cleaned.text # <<>>
    /\ Len(SplitLines(enriched)) = Len(SplitLines(cleaned.text)) + 4
    /\ ~cleaned_enriched.raised
    /\ cleaned_enriched = recleaned

(***************************************************************************)
(* DataProcessor.process: the pure parts                                   *)
(***************************************************************************)

\* building_patterns, in the order of the dictionary
BuildingPatterns ==
    << [building |-> AdminBuilding,
        patterns |-> <<AdminBuilding, S("Administration Building")>>],
       [building |-> <<"jing4", "xian", "lou">>,
        patterns |-> << <<"jing4", "xian", "lou">>, S("Jing-Xian Hall")>>],
       [building |-> <<"zong", "tu", "shu", "guan3">>,
        patterns |-> << <<"zong", "tu", "shu", "guan3">>, S("Main Library")>>],
       [building |-> <<"gong4", "tong2", "jiao", "xue", "guan3">>,
        patterns |-> << <<"gong4", "tong2", "jiao", "xue", "guan3">>, S("General Building")>>],
       [building |-> <<"li4", "xian", "lou">>,
        patterns |-> << <<"li4", "xian", "lou">>, S("Lixian Hall")>>],
       [building |-> <<"zhan", "shu", "lou">>,
        patterns |-> << <<"zhan", "shu", "lou">>, S("Jan Shu Hall")>>],
       [building |-> <<"wang4", "le", "lou">>,
        patterns |-> << <<"wang4", "le", "lou">>, S("Hall of Joy and Hope")>>] >>

\* _detect_building(text): the first building one of whose patterns is in the
\* text, "" for None.
DetectBuilding(doc_text) ==
    LET hits == {b \in DOMAIN BuildingPatterns :
                    \E p \in DOMAIN BuildingPatterns[b].patterns :
                        Contains(doc_text, BuildingPatterns[b].patterns[p])}
    IN  IF hits = {} THEN <<>>
        ELSE BuildingPatterns[CHOOSE b \in hits : \A c \in hits : b <= c].building

\* _extract_title(content): the first line that is not blank, stripped.
ExtractTitle(doc_text) ==
    LET lines  == SplitLines(doc_text)
        filled == {k \in 1..Len(lines) : Strip(lines[k]) # <<>>}
    IN  IF doc_text = <<>> \/ filled = {} THEN <<>>
        ELSE Strip(lines[CHOOSE k \in filled : \A j \in filled : k <= j])

\* The suffixes of unit_patterns of _extract_unit_name_from_text: (.{2,12}組) ...
UnitNameSuffixes ==
    << <<"zu">>, <<"chu">>, <<"zhong", "xin">>, <<"bu4">>, <<"shi">>, <<"guan3">>,
       <<"xi">>, <<"suo">>, <<"yuan4">>, <<"ke">> >>

\* The length of the match of (.{2,12}suffix) at index p, 0 for none: the dot
\* matches all but a line break, the repetition is greedy.
UnitNameMatchLen(doc_text, suffix, p) ==
    LET ns == {n \in 2..12 :
                  /\ p + n + Len(suffix) - 1 <= Len(doc_text)
                  /\ \A j \in p..(p + n - 1) : doc_text[j] # "\n"
                  /\ SubSeq(doc_text, p + n, p + n + Len(suffix) - 1) = suffix}
    IN  IF ns = {} THEN 0
        ELSE (CHOOSE n \in ns : \A m \in ns : n >= m) + Len(suffix)

\* re.search(pattern, text).group(1).strip(), "" when nothing matches
SearchUnitName(doc_text, suffix) ==
    LET starts == {p \in 1..Len(doc_text) : UnitNameMatchLen(doc_text, suffix, p) > 0}
    IN  IF starts = {} THEN <<>>
        ELSE LET p == CHOOSE a \in starts : \A b \in starts : a <= b
             IN  Strip(SubSeq(doc_text, p, p + UnitNameMatchLen(doc_text, suffix, p) - 1))

\* A variant that takes the last pattern of the list whose match does not start
\* with a digit.
ExtractUnitNameLastPattern(doc_text) ==
    LET found == {k \in DOMAIN UnitNameSuffixes :
                     LET unit == SearchUnitName(doc_text, UnitNameSuffixes[k])
                     IN  unit # <<>> /\ unit[1] \notin Digits}
    IN  IF found = {} THEN <<>>
        ELSE SearchUnitName(doc_text,
                            UnitNameSuffixes[CHOOSE k \in found : \A j \in found : k >= j])

\* _extract_unit_name_from_text(text): the match of the first pattern whose
\* match does not start with a digit, "" for None.
ExtractUnitNameFromText(doc_text) ==
    LET found == {k \in DOMAIN UnitNameSuffixes :
                     LET unit == SearchUnitName(doc_text, UnitNameSuffixes[k])
                     IN  unit # <<>> /\ unit[1] \notin Digits}
    IN  IF found = {} THEN <<>>
        ELSE SearchUnitName(doc_text, UnitNameSuffixes[CHOOSE k \in found : \A j \in found : k <= j])

\* text_splitter.create_documents([text]) of a text that fits one chunk of
\* chunk_size: the text stripped, and nothing for a blank text.
SplitText(doc_text) == IF Strip(doc_text) = <<>> THEN <<>> ELSE <<Strip(doc_text)>>

\* location_map[key] = loc_info
MapPut(map, key, value) ==
    IF \E k \in 1..Len(map) : map[k].key = key
    THEN [k \in 1..Len(map) |-> IF map[k].key = key THEN [key |-> key, value |-> value]
                                 ELSE map[k]]
    ELSE Append(map, [key |-> key, value |-> value])

RECURSIVE MapPutOffices(_, _)
\* for office in offices: location_map[office['name_zh']] = loc_info
MapPutOffices(map, found) ==
    IF found = <<>> THEN map
    ELSE MapPutOffices(MapPut(map, found[1].name_zh,
                              found[1].building \o <<" ">> \o found[1].floor \o <<" ">>
                                \o found[1].room \o <<"shi">>),
                       Tail(found))

\* "## " in text or "樓" in text
HasFloorMark(doc_text) == Contains(doc_text, S("## ")) \/ Contains(doc_text, <<"lou">>)

\* The body of the loop of build_location_map for one item: [raised, map].
MapWithItem(map, item) ==
    IF item.department # "admin" \/ item.content = <<>> THEN [raised |-> FALSE, map |-> map]
    ELSE LET clean == CleanTextAdvanced(item.content, "admin")
             building == DetectBuilding(clean.text)
         IN  IF clean.raised THEN [raised |-> TRUE, map |-> map]
             ELSE IF building # <<>> /\ HasFloorMark(clean.text)
             THEN [raised |-> FALSE,
                   map |-> MapPutOffices(map, ExtractOfficeLocations(clean.text, building))]
             ELSE [raised |-> FALSE, map |-> map]

\* The metadata of the content chunks of an item and, before them, its
\* location chunks: the body of the chunking loop.
ChunksOfItem(item) ==
    LET doc_text == item.clean_content
        title == IF item.title # <<>> THEN item.title ELSE ExtractTitle(doc_text)
        name  == IF ExtractUnitNameFromText(title) # <<>> THEN ExtractUnitNameFromText(title)
                 ELSE ExtractUnitNameFromText(doc_text)
        id    == IF name # <<>> THEN NormalizeUnitId(name) ELSE <<>>
        unit  == IF name = <<>> THEN <<>>
                 ELSE IF id = <<>> THEN [unit_name |-> name]
                 ELSE [unit_name |-> name, unit_id |-> id]
        detected_building == DetectBuilding(doc_text)
        found == IF detected_building # <<>> /\ HasFloorMark(doc_text)
                    /\ Contains(doc_text, S("- "))
                 THEN ExtractOfficeLocations(doc_text, detected_building)
                 ELSE <<>>
        chunks == SplitText(doc_text)
    IN  CreateLocationChunks(found, item.url, item.department)
          \o [k \in 1..Len(chunks) |->
                [ContentChunk(title, chunks[k], item.url, item.department, unit)
                    EXCEPT !.metadata.type = ClassifyChunkType(doc_text)]]

RECURSIVE BuildLocationMap(_, _)
\* build_location_map(raw_items): the map after the loop over the items, from
\* map on; [raised, map].
BuildLocationMap(items, map) ==
    IF items = <<>> THEN [raised |-> FALSE, map |-> map]
    ELSE LET one == MapWithItem(map, items[1])
         IN  IF one.raised THEN one ELSE BuildLocationMap(Tail(items), one.map)

\* A variant in which the loop of build_location_map ends after its first item.
LoopOverAfterFirst(items, k) == k > Min(1, Len(items))

\* for item in raw_items: the loop is over when every item was visited.
LoopOver(items, k) == k > Len(items)

(***************************************************************************)
(* DataProcessor.process: one item of one loop at a time                   *)
(***************************************************************************)

\* The most raw items a run loads.
MaxItems == 2

\* The text of a directory page of the administration building as scraped:
\* one floor, two rooms.
DirectoryPage(floor, room) ==
    AdminBuilding \o S(" offices of the administration, room by room") \o <<"\n">>
      \o floor \o <<"lou", "\n">> \o room \o <<"\n">> \o ZhuCeZu \o S("\nRegistrar\n")
      \o S("107\n") \o JiaoWuChu \o S("\nAcademic Affairs")

\* A raw item: its department, title, url and the scraped success and content.
RawItem(dept, title, url, success, doc_content) ==
    [department |-> dept, title |-> title, url |-> url, success |-> success,
     content |-> doc_content]

\* The items a run may load: two directory pages of the administration (one
\* of them not scraped with success), a page that names an office and gives
\* its phone, a page too short to keep, a page of another department written
\* as a directory, two pages the cleaner raises on, and a directory page that
\* writes the name of an office with a blank in it.
RawItemsGiven ==
    { RawItem("admin", <<>>, S("u/dir"), TRUE, DirectoryPage(S("1"), S("106"))),
      RawItem("admin", <<>>, S("u/dir3"), TRUE,
              AdminBuilding \o S(" offices of the administration, the third floor\n3")
                \o <<"lou">> \o S("\n301\n") \o <<"zhu", "ce", " ", "zu">>
                \o S("\nRegistrar, the counter")),
      RawItem("admin", S("Offices"), S("u/dir2"), FALSE, DirectoryPage(S("2"), S("201"))),
      RawItem("aca", ZhuCeZu, S("u/reg"), TRUE,
              ZhuCeZu \o S(" handles course registration and student records, ")
                \o <<"dian", "hua">> \o S(" 7734-1234")),
      RawItem("aca", <<>>, S("u/short"), TRUE, S("  closed  ")),
      RawItem("aca", <<>>, S("u/list"), TRUE,
              AdminBuilding \o S(" rooms that the students ask for most often\n## 1")
                \o <<"lou">> \o S("\n- 106 ") \o ZhuCeZu \o S(" (Registrar)")),
      RawItem("admin", <<>>, S("u/cut"), TRUE, S("101\n##\nA")),
      RawItem("aca", <<>>, S("u/hours"), TRUE,
              S("a page of the office hours that ends in a heading\n101\n##\nA")) }

InitProcess ==
    /\ store = <<>>
    /\ EngineIdle
    /\ CleanerIdle
    /\ ExtractorIdle
    /\ NormalizerIdle
    /\ raw_items \in UNION {[1..n -> RawItemsGiven] : n \in 0..MaxItems}
    /\ process_pc = "build_location_map"
    /\ item_no = 1
    /\ location_map = <<>>
    /\ valid_items = <<>>
    /\ all_chunks = <<>>
    /\ NoneSuspended
    /\ DetectorIdle
    /\ ResponderIdle

\* build_location_map: one turn of its loop.
BuildLocationMapItem ==
    /\ process_pc = "build_location_map"
    /\ ~LoopOver(raw_items, item_no)
    /\ \E one \in {MapWithItem(location_map, raw_items[item_no])} :
          IF one.raised
          THEN /\ process_pc' = "raised"
               /\ UNCHANGED <<item_no, location_map>>
          ELSE /\ location_map' = one.map
               /\ item_no' = item_no + 1
               /\ UNCHANGED process_pc
    /\ UNCHANGED <<raw_items, valid_items, all_chunks>>
    /\ UNCHANGED <<engineVars, cleanerVars, extractorVars, normalizerVars, schedulerVars,
                   detectorVars, responderVars>>

\* self.location_map = self.build_location_map(raw_items)
BuildLocationMapReturn ==
    /\ process_pc = "build_location_map"
    /\ LoopOver(raw_items, item_no)
    /\ process_pc' = "clean"
    /\ item_no' = 1
    /\ UNCHANGED <<raw_items, location_map, valid_items, all_chunks>>
    /\ UNCHANGED <<engineVars, cleanerVars, extractorVars, normalizerVars, schedulerVars,
                   detectorVars, responderVars>>

\* What one turn of the filter, clean and enrich loop does with an item:
\* [kept, raised, text].
CleanAndEnrich(item, map) ==
    IF ~item.success \/ Len(Strip(item.content)) < 50
    THEN [kept |-> FALSE, raised |-> FALSE, text |-> <<>>]
    ELSE LET clean == CleanTextAdvanced(Strip(item.content), item.department)
         IN  IF clean.raised THEN [kept |-> FALSE, raised |-> TRUE, text |-> <<>>]
             ELSE [kept |-> TRUE, raised |-> FALSE,
                   text |-> EnrichContentWithLocations(clean.text, map)]

\* The filter, clean and enrich loop: one turn.
CleanItem ==
    /\ process_pc = "clean"
    /\ item_no <= Len(raw_items)
    /\ \E one \in {CleanAndEnrich(raw_items[item_no], location_map)} :
          IF one.raised
          THEN /\ process_pc' = "raised"
               /\ UNCHANGED <<item_no, raw_items, valid_items>>
          ELSE IF ~one.kept
          THEN /\ item_no' = item_no + 1
               /\ UNCHANGED <<process_pc, raw_items, valid_items>>
          ELSE /\ raw_items' = [raw_items EXCEPT ![item_no].content = one.text]
               /\ valid_items' = Append(valid_items,
                     [raw_items[item_no] EXCEPT !.content = one.text]
                        @@ [clean_content |-> one.text])
               /\ item_no' = item_no + 1
               /\ UNCHANGED process_pc
    /\ UNCHANGED <<location_map, all_chunks>>
    /\ UNCHANGED <<engineVars, cleanerVars, extractorVars, normalizerVars, schedulerVars,
                   detectorVars, responderVars>>

\* The loop is over: the chunking starts.
CleanReturn ==
    /\ process_pc = "clean"
    /\ item_no > Len(raw_items)
    /\ process_pc' = "chunk"
    /\ item_no' = 1
    /\ UNCHANGED <<raw_items, location_map, valid_items, all_chunks>>
    /\ UNCHANGED <<engineVars, cleanerVars, extractorVars, normalizerVars, schedulerVars,
                   detectorVars, responderVars>>

\* The chunking loop: one turn.
ChunkItem ==
    /\ process_pc = "chunk"
    /\ item_no <= Len(valid_items)
    /\ all_chunks' = all_chunks \o ChunksOfItem(valid_items[item_no])
    /\ item_no' = item_no + 1
    /\ UNCHANGED <<raw_items, process_pc, location_map, valid_items>>
    /\ UNCHANGED <<engineVars, cleanerVars, extractorVars, normalizerVars, schedulerVars,
                   detectorVars, responderVars>>

\* all_chunks is written to data/processed_chunks.json
ProcessReturn ==
    /\ process_pc = "chunk"
    /\ item_no > Len(valid_items)
    /\ process_pc' = "done"
    /\ UNCHANGED <<raw_items, item_no, location_map, valid_items, all_chunks>>
    /\ UNCHANGED <<engineVars, cleanerVars, extractorVars, normalizerVars, schedulerVars,
                   detectorVars, responderVars>>

NextProcess ==
    \/ BuildLocationMapItem
    \/ BuildLocationMapReturn
    \/ CleanItem
    \/ CleanReturn
    \/ ChunkItem
    \/ ProcessReturn

SpecProcess == InitProcess /\ [][NextProcess]_vars

\* The metadata keys that give a place.
PlaceKeys == {"building", "floor", "room"}

\* C12: in the chunk list of process, a chunk of type "location" has the
\* fields building, floor and room in its metadata, and a chunk of any other
\* type has none of them.
C12_PlaceFieldsIffLocation ==
    \A k \in 1..Len(all_chunks) :
        LET keys == DOMAIN all_chunks[k].metadata
        IN  IF all_chunks[k].metadata.type = "location"
            THEN PlaceKeys \subseteq keys
            ELSE PlaceKeys \cap keys = {}

\* A run ended whose chunk list has a location chunk and, from the same
\* directory page, a content chunk.
C12_Witness ==
    /\ process_pc = "done"
    /\ \E j, k \in 1..Len(all_chunks) :
          /\ all_chunks[j].metadata.type = "location"
          /\ all_chunks[k].metadata.type # "location"
          /\ all_chunks[j].metadata.url = all_chunks[k].metadata.url
          /\ Contains(all_chunks[k].text, AdminBuilding)

\* C14: no item is enriched while build_location_map runs; when the enrichment
\* loop starts the map is what build_location_map gives for all the raw items;
\* and from then on the map does not change.
C14_MapBuiltBeforeEnrichment ==
    /\ [](process_pc = "build_location_map" => valid_items = <<>>)
    /\ []((process_pc = "clean" /\ item_no = 1)
             => location_map = BuildLocationMap(raw_items, <<>>).map)
    /\ [][valid_items' # valid_items
             => process_pc = "clean" /\ location_map' = location_map]_vars
    /\ [][location_map' # location_map
             => process_pc = "build_location_map" /\ valid_items = <<>>]_vars

\* A run ended in which the directory page came after a page that names an
\* office, and that page was enriched with the office's place all the same.
C14_Witness ==
    /\ process_pc = "done"
    /\ Len(raw_items) = 2
    /\ raw_items[1].department = "aca"
    /\ raw_items[2].department = "admin"
    /\ Len(location_map) = 2
    /\ valid_items # <<>>
    /\ valid_items[1].url = raw_items[1].url
    /\ Contains(valid_items[1].clean_content, EnrichmentMarker)

(***************************************************************************)
(* _get_query_intent on queries made of keywords                           *)
(***************************************************************************)

\* The most words of a query that is classified.
MaxWords == 3

\* The words of those queries: two location keywords (one in capitals), a
\* phone keyword in mixed case, a service keyword, and a word that is none.
IntentWords == { <<"zai", "na">>, S("WHERE"), S("Tel"), <<"shen", "qing3">>, S("hi") }

RECURSIVE JoinWords(_)
\* " ".join(words)
JoinWords(words) ==
    IF words = <<>> THEN <<>>
    ELSE IF Len(words) = 1 THEN words[1]
    ELSE words[1] \o <<" ">> \o JoinWords(Tail(words))

IntentQueries == { JoinWords(ws) : ws \in UNION {[1..n -> IntentWords] : n \in 0..MaxWords} }

InitIntent ==
    /\ store = <<>>
    /\ EngineIdle
    /\ CleanerIdle
    /\ ExtractorIdle
    /\ NormalizerIdle
    /\ ProcessIdle
    /\ NoneSuspended
    /\ DetectorIdle
    /\ ResponderIdle

\* intent = self._get_query_intent(query), of any of the queries
ReceiveAny == \E q \in IntentQueries, two \in BOOLEAN : Receive(q, two)

NextIntent == ReceiveAny

SpecIntent == InitIntent /\ [][NextIntent]_vars

\* Whether one of the keywords is in the query, whatever the case of either.
HasKeyword(q, keywords) == \E k \in keywords : Contains(Lower(q), Lower(k))

\* C15: the intent is a function of the query alone: location when the query
\* has a location keyword, whatever else it has; otherwise phone when it has a
\* phone keyword; otherwise service when it has a service keyword; otherwise
\* general.
C15_IntentPriority ==
    pc = "classified" =>
        /\ HasKeyword(query, LocationKeywords) => intent = "location"
        /\ (~HasKeyword(query, LocationKeywords) /\ HasKeyword(query, PhoneKeywords))
              => intent = "phone"
        /\ (~HasKeyword(query, LocationKeywords) /\ ~HasKeyword(query, PhoneKeywords)
              /\ HasKeyword(query, ServiceKeywords)) => intent = "service"
        /\ (~HasKeyword(query, LocationKeywords) /\ ~HasKeyword(query, PhoneKeywords)
              /\ ~HasKeyword(query, ServiceKeywords)) => intent = "general"

\* A query with a location keyword, a phone keyword and a service keyword was
\* classified as a location query.
C15_Witness ==
    /\ pc = "classified"
    /\ HasKeyword(query, LocationKeywords)
    /\ HasKeyword(query, PhoneKeywords)
    /\ HasKeyword(query, ServiceKeywords)
    /\ intent = "location"

(***************************************************************************)
(* retrieve as a function of the store and its arguments, when the store   *)
(* answers every query                                                     *)
(***************************************************************************)

\* retrieve_stage2(unit_names, unit_ids, query, n_results=10) on the store st
RetrieveStage2(st, names, ids) ==
    LET RECURSIVE ByIds(_, _)
        ByIds(all, k) ==
            IF k > Len(ids) THEN all
            ELSE ByIds(MergeUnseen(all, StoreQuery(st, "query", Stage2N, UnitFilter(ids[k]))),
                       k + 1)
        RECURSIVE ByNames(_, _)
        ByNames(all, k) ==
            IF k > Len(names) THEN all
            ELSE ByNames(MergeUnseen(all, StoreQuery(st, "named", Stage2N, NoFilter)), k + 1)
        filtered == ByIds(<<>>, 1)
    IN  Prefix(SortByDist(IF filtered = <<>> /\ names # <<>> THEN ByNames(filtered, 1)
                          ELSE filtered),
               Stage2N)

\* _append_location_chunks(results, unit_ids, unit_names) on the store st
AppendLocationChunks(st, found, ids, names) ==
    LET RECURSIVE ByIds(_, _)
        ByIds(all, k) ==
            IF k > Len(ids) THEN all
            ELSE ByIds(AppendUnseen(all, OnlyLocation(
                           StoreQuery(st, "unit", MaxPerUnit, LocationFilter(ids[k])))), k + 1)
        RECURSIVE ByNames(_, _)
        ByNames(all, k) ==
            IF k > Len(names) THEN all
            ELSE ByNames(AppendUnseen(all, OnlyLocation(
                             StoreQuery(st, "unit", MaxPerUnit, NoFilter))), k + 1)
    IN  IF ids # <<>> THEN ByIds(found, 1) ELSE ByNames(found, 1)

\* retrieve(query, use_two_stage) on the store st: what it may return, one
\* result for each order the lists made of the two sets may have.
Retrieve(st, q, two) ==
    LET stage1 == StoreQuery(st, "query", Stage1N, NoFilter)
        names  == ResolvedNames(stage1)
        ids    == ResolvedIds(stage1)
    IN  IF ~two \/ (names = {} /\ ids = {})
        THEN {RetrieveWithPriority(st, q, GetQueryIntent(q))}
        ELSE {AppendLocationChunks(st,
                  RerankWithIntent(RetrieveStage2(st, ns, us), GetQueryIntent(q), TopK), us, ns) :
                ns \in Orders(names), us \in Orders(ids)}

(***************************************************************************)
(* Two calls of retrieve on one engine, their steps interleaved            *)
(***************************************************************************)

\* The locals of the call that runs.
Locals ==
    [pc |-> pc, query |-> query, use_two_stage |-> use_two_stage, intent |-> intent,
     stage1_results |-> stage1_results, unit_names |-> unit_names, unit_ids |-> unit_ids,
     i |-> i, all_docs |-> all_docs, stage2_results |-> stage2_results, results |-> results,
     issued |-> issued, faults |-> faults]

\* A variant in which the intent is kept in the engine, where the call that
\* runs next finds what the other call left.
ResumedSharingIntent(saved, running) == [saved EXCEPT !.intent = running.intent]

\* The locals a call finds when it runs on: its own, as it left them; nothing
\* of retrieve is kept in the engine.
Resumed(saved, running) == saved

\* The stores the two calls read: one with a location chunk and a page of
\* another unit, one with a page that names an office and has no unit fields,
\* and the empty one.
SharedStores == { Pick(SpecialChunks, {1, 7}), Pick(SpecialChunks, {4}), <<>> }

\* The queries of the two calls: for a place and for a phone number.
TwoQueries == { ZhuCeZu \o <<"zai", "na", "li">>, ZhuCeZu \o <<"dian", "hua">> }

InitTwo ==
    /\ store \in SharedStores
    /\ EngineIdle
    /\ CleanerIdle
    /\ ExtractorIdle
    /\ NormalizerIdle
    /\ ProcessIdle
    /\ NoneSuspended
    /\ DetectorIdle
    /\ ResponderIdle

\* The thread of the other call is scheduled.
Switch ==
    /\ \E next \in {Resumed(suspended, Locals)} :
          /\ pc' = next.pc
          /\ query' = next.query
          /\ use_two_stage' = next.use_two_stage
          /\ intent' = next.intent
          /\ stage1_results' = next.stage1_results
          /\ unit_names' = next.unit_names
          /\ unit_ids' = next.unit_ids
          /\ i' = next.i
          /\ all_docs' = next.all_docs
          /\ stage2_results' = next.stage2_results
          /\ results' = next.results
          /\ issued' = next.issued
          /\ faults' = next.faults
    /\ suspended' = Locals
    /\ UNCHANGED store
    /\ UNCHANGED <<cleanerVars, extractorVars, normalizerVars, processVars, detectorVars,
                   responderVars>>

\* A step A in which the store answers the query, if A makes one.
Answered(A) == A /\ UNCHANGED faults

NextTwo ==
    \/ \E q \in TwoQueries, two \in BOOLEAN : Receive(q, two)
    \/ Answered(SingleStage)
    \/ Answered(Stage1)
    \/ ResolveUnits
    \/ Answered(NoUnit)
    \/ Answered(Stage2Filtered)
    \/ Answered(Stage2Name)
    \/ Stage2Return
    \/ Rerank
    \/ Answered(AugmentFiltered)
    \/ Answered(AugmentName)
    \/ AugmentReturn
    \/ Switch

SpecTwo == InitTwo /\ [][NextTwo]_vars

\* C16: no step of a call changes the store; and a call returns, whatever the
\* other call did in between, a result that retrieve gives for its arguments
\* and the store when it runs alone.
C16_ReadOnlyAndIndependent ==
    /\ [][store' = store]_vars
    /\ [](pc = "done" => results \in Retrieve(store, query, use_two_stage))
    /\ [](suspended.pc = "done"
             => suspended.results \in Retrieve(store, suspended.query, suspended.use_two_stage))

\* A two-stage call for a place returned, with a location chunk in its result,
\* while a two-stage call for a phone number stood between two of its queries.
C16_Witness ==
    /\ pc = "done"
    /\ use_two_stage /\ intent = "location"
    /\ Len(issued) > 2
    /\ \E k \in 1..Len(results) : TypeOf(results[k].meta) = "location"
    /\ suspended.pc = "augment_ids"
    /\ suspended.use_two_stage /\ suspended.intent = "phone"
    /\ suspended.i = 2

\* C17: when a two-stage call finds no unit name and no valid unit id in the
\* Stage-1 results, every entry it returns is one of the Stage-1 results, and
\* the Stage-1 query is the only query the call made.
C17_NoUnitPath ==
    (pc = "done" /\ use_two_stage
        /\ ResolvedNames(stage1_results) = {} /\ ResolvedIds(stage1_results) = {})
      => /\ \A k \in 1..Len(results) : \E j \in 1..Len(stage1_results) :
               /\ results[k].doc = stage1_results[j].doc
               /\ results[k].meta = stage1_results[j].meta
         /\ Len(issued) = 1

\* The unit ids that the metadata of the Stage-1 results give.
Stage1UnitIds ==
    {MetaGet(stage1_results[j].meta, "unit_id") : j \in 1..Len(stage1_results)} \ {<<>>}

\* Whether the unit id u is one of the resolved unit ids.
Kept(u) == \E k \in 1..Len(unit_ids) : unit_ids[k] = u

\* Whether the unit id u has a line break.
HasLineBreak(u) == \E k \in 1..Len(u) : u[k] = "\n"

\* C18 as stated: once the units are resolved, a unit id of the Stage-1
\* metadata is discarded exactly when it is longer than 50 characters or has a
\* line break; one of exactly 50 characters is kept.
C18_LongerThanLimitDiscarded ==
    pc \notin {"idle", "classified", "stage1"} =>
        \A u \in Stage1UnitIds : ~Kept(u) <=> (Len(u) > UnitIdLimit \/ HasLineBreak(u))

\* C18, amended: once the units are resolved, a unit id of the Stage-1
\* metadata is discarded exactly when it has 50 characters or more or has a
\* line break; one of 49 characters is kept, one of exactly 50 is discarded.
C18_LimitOrLongerDiscarded ==
    pc \notin {"idle", "classified", "stage1"} =>
        \A u \in Stage1UnitIds : ~Kept(u) <=> (Len(u) >= UnitIdLimit \/ HasLineBreak(u))

\* A call returned whose Stage-1 results gave a unit id of 49 characters, which
\* was kept, and one of 50 characters, which was discarded.
C18_Witness ==
    /\ pc = "done"
    /\ \E u, v \in Stage1UnitIds :
          /\ Len(u) = UnitIdLimit - 1 /\ Kept(u)
          /\ Len(v) = UnitIdLimit /\ ~Kept(v) /\ ~HasLineBreak(v)

\* The collection.query calls of retrieve_stage2 among the calls issued: those
\* that ask for n_results = 10.
Stage2Calls == SelectSeq(issued, LAMBDA c : c.n_results = Stage2N)

\* The calls of retrieve_stage2 with a where argument.
FilteredCalls == SelectSeq(Stage2Calls, LAMBDA c : c.where # NoFilter)

\* The calls of retrieve_stage2 for "{unit_name} {query}".
NamedCalls == SelectSeq(Stage2Calls, LAMBDA c : c.where = NoFilter /\ c.query_text # query)

\* What a call of retrieve_stage2 that did not raise was answered.
AnswerTo(c) ==
    StoreQuery(store, IF c.query_text = query THEN "query" ELSE "named", Stage2N, c.where)

\* C19: when retrieve_stage2 returns, it has made one query filtered to the
\* unit id for each resolved unit id, in their order and before any other;
\* it has made queries for "{unit_name} {query}", without a filter and one for
\* each name, only if there is a name and none of its other queries was
\* answered a document; and what it returns has no fingerprint twice, is in
\* ascending order of distance, has at most 10 entries, and holds the nearest
\* of the documents its queries were answered.
C19_Stage2Protocol ==
    pc = "stage2" =>
        /\ Len(FilteredCalls) = Len(unit_ids)
        /\ \A k \in 1..Len(unit_ids) :
              /\ FilteredCalls[k].where = UnitFilter(unit_ids[k])
              /\ FilteredCalls[k].query_text = query
        /\ NamedCalls # <<>> =>
              /\ unit_names # <<>>
              /\ Len(NamedCalls) = Len(unit_names)
              /\ \A k \in 1..Len(unit_names) :
                    NamedCalls[k].query_text = unit_names[k] \o <<" ">> \o query
              /\ \A k \in 1..Len(Stage2Calls) :
                    LET c == Stage2Calls[k]
                    IN  c.query_text = query =>
                           /\ c.raised \/ AnswerTo(c) = <<>>
                           /\ \A j \in 1..Len(Stage2Calls) :
                                 Stage2Calls[j].query_text # query => k < j
        /\ Len(stage2_results) <= Stage2N
        /\ Ascends(stage2_results)
        /\ \A a, b \in 1..Len(stage2_results) :
              a # b => Fingerprint(stage2_results[a]) # Fingerprint(stage2_results[b])
        /\ \A k \in 1..Len(stage2_results) : \E j \in 1..Len(Stage2Calls) :
              /\ ~Stage2Calls[j].raised
              /\ \E n \in 1..Len(AnswerTo(Stage2Calls[j])) :
                    AnswerTo(Stage2Calls[j])[n] = stage2_results[k]
        /\ \A j \in 1..Len(Stage2Calls) :
              ~Stage2Calls[j].raised =>
                 \A n \in 1..Len(AnswerTo(Stage2Calls[j])) :
                    LET e == AnswerTo(Stage2Calls[j])[n]
                    IN  \/ \E k \in 1..Len(stage2_results) :
                              Fingerprint(stage2_results[k]) = Fingerprint(e)
                        \/ /\ Len(stage2_results) = Stage2N
                           /\ stage2_results[Stage2N].dist <= e.dist

\* retrieve_stage2 returned after two queries by name, no unit id being
\* resolved; both were answered the same documents, and each is returned once.
C19_Witness ==
    /\ pc = "stage2"
    /\ unit_ids = <<>>
    /\ Len(unit_names) = 2
    /\ Len(NamedCalls) = 2
    /\ faults = 0
    /\ Len(AnswerTo(NamedCalls[1])) > 1
    /\ Len(stage2_results) = Len(AnswerTo(NamedCalls[1]))

\* The discount of an intent, in units of 0.05: 0.2, 0.15 and 0.1.
Discount(kind) ==
    CASE kind = "location" -> LocationBoost
      [] kind = "phone" -> PhoneBoost
      [] kind = "service" -> ServiceBoost
      [] OTHER -> 0

\* The distance the reranking gives an entry: less the discount, and not less
\* than 0, when the type of the chunk is the intent; as it is otherwise.
NewDistance(e) ==
    IF TypeOf(e.meta) = intent /\ Discount(intent) > 0
    THEN (IF e.dist > Discount(intent) THEN e.dist - Discount(intent) ELSE 0)
    ELSE e.dist

\* Whether given is what the reranking gives for the candidates: each entry
\* is a candidate with its new distance, they ascend, they are as many as the
\* candidates up to top_k, and a candidate left out is no nearer than the last.
IsReranked(candidates, given) ==
    /\ Len(given) = Min(Len(candidates), TopK)
    /\ Ascends(given)
    /\ \A k \in 1..Len(given) :
          /\ given[k].dist >= 0
          /\ \E j \in 1..Len(candidates) :
                /\ given[k].doc = candidates[j].doc
                /\ given[k].meta = candidates[j].meta
                /\ given[k].dist = NewDistance(candidates[j])
    /\ \A j \in 1..Len(candidates) :
          \/ \E k \in 1..Len(given) :
                /\ given[k].doc = candidates[j].doc
                /\ given[k].meta = candidates[j].meta
          \/ /\ Len(given) = TopK
             /\ given[TopK].dist <= NewDistance(candidates[j])

\* C20: what _rerank_with_intent returns, in a two-stage call for the results
\* of retrieve_stage2 and in retrieve_with_priority for the 15 nearest chunks,
\* is the candidates with the distance d of each made max(0, d - discount) when
\* its type is the intent (0.2 for location, 0.15 for phone, 0.1 for service)
\* and left as it is otherwise, in ascending order of the new distance, cut to
\* at most 5; no distance in it is negative.
C20_Reranking ==
    /\ (pc = "augment_ids" /\ i = 1)
          => IsReranked(Prefix(SortByDist(all_docs), Stage2N), stage2_results)
    /\ (pc = "done" /\ unit_ids = <<>> /\ unit_names = <<>>)
          => IsReranked(StoreQuery(store, "query", PriorityN, NoFilter), results)

\* A call for a phone number reranked more than 5 candidates: a phone chunk
\* whose distance was less than the discount is returned at distance 0, and a
\* chunk of another type is returned at the distance it had.
C20_Witness ==
    /\ pc = "augment_ids" /\ i = 1
    /\ intent = "phone"
    /\ Len(all_docs) > TopK
    /\ Len(stage2_results) = TopK
    /\ \E k \in 1..TopK, j \in 1..Len(all_docs) :
          /\ TypeOf(stage2_results[k].meta) = "phone"
          /\ stage2_results[k].dist = 0
          /\ all_docs[j].doc = stage2_results[k].doc
          /\ all_docs[j].dist > 0
          /\ all_docs[j].dist < PhoneBoost
    /\ \E k \in 1..TopK, j \in 1..Len(all_docs) :
          /\ TypeOf(stage2_results[k].meta) # "phone"
          /\ all_docs[j].doc = stage2_results[k].doc
          /\ all_docs[j].dist = stage2_results[k].dist
          /\ all_docs[j].dist > 0

(***************************************************************************)
(* Properties of _append_location_chunks                                   *)
(***************************************************************************)

\* _append_location_chunks has been entered by a call that resolved a unit.
Augmenting ==
    /\ pc \in {"augment_ids", "augment_retry", "augment_names", "done"}
    /\ use_two_stage
    /\ unit_ids # <<>> \/ unit_names # <<>>

\* The positions of the result behind the reranked entries.
AppendedAt == (Len(stage2_results) + 1)..Len(results)

\* C21: the augmentation only appends.  While it runs and when it has
\* returned, the reranked entries are the prefix of the result, unchanged;
\* every entry behind them has the type "location" and a text no entry before
\* it has; and there are at most 2 of them for each unit id (each unit name,
\* when no unit id was resolved) whose loop turn is over.
C21_AugmentationOnlyAppends ==
    Augmenting =>
        /\ Len(results) >= Len(stage2_results)
        /\ SubSeq(results, 1, Len(stage2_results)) = stage2_results
        /\ \A k \in AppendedAt :
              /\ MetaGet(results[k].meta, "type") = "location"
              /\ \A j \in 1..(k - 1) : results[j].doc # results[k].doc
        /\ Cardinality(AppendedAt) <= MaxPerUnit * (i - 1)
        /\ i - 1 <= (IF unit_ids # <<>> THEN Len(unit_ids) ELSE Len(unit_names))

\* A call returned a result in which a location chunk is among the reranked
\* entries, so that the query of the augmentation found it again, and another
\* location chunk was appended behind them.
C21_Witness ==
    /\ pc = "done" /\ Augmenting
    /\ \E k \in 1..Len(stage2_results) : MetaGet(stage2_results[k].meta, "type") = "location"
    /\ AppendedAt # {}

\* The calls of the augmentation: those that ask for max_per_unit results.
AugmentCalls == SelectSeq(issued, LAMBDA c : c.n_results = MaxPerUnit)

\* The store holds a location chunk of the unit named n.
StoreHasLocationNamed(n) ==
    \E k \in 1..Len(store) :
        /\ MetaGet(store[k].metadata, "type") = "location"
        /\ MetaGet(store[k].metadata, "unit_name") = n

\* The result holds a location chunk of the unit named n.
ResultHasLocationNamed(n) ==
    \E k \in 1..Len(results) :
        /\ MetaGet(results[k].meta, "type") = "location"
        /\ MetaGet(results[k].meta, "unit_name") = n

\* C22: when a two-stage call that resolved unit names and no unit id has
\* returned, every query of the augmentation was restricted to the type
\* "location", and for every resolved name of which the store holds a location
\* chunk the result holds a location chunk of that unit.
C22_NamePathCoverage ==
    (pc = "done" /\ use_two_stage /\ unit_ids = <<>> /\ unit_names # <<>>) =>
        /\ \A k \in 1..Len(unit_names) :
              StoreHasLocationNamed(unit_names[k]) => ResultHasLocationNamed(unit_names[k])
        /\ \A k \in 1..Len(AugmentCalls) :
              /\ "type" \in DOMAIN AugmentCalls[k].where
              /\ AugmentCalls[k].where.type = "location"

(***************************************************************************)
(* Properties of process and build_location_map                            *)
(***************************************************************************)

\* The department whose pages are the directory of the offices.
DirectoryDepartment == "admin"

\* The office records of a cleaned text: those _extract_office_locations
\* finds for the building the text names.
OfficeRecords(doc_text) ==
    IF DetectBuilding(doc_text) = <<>> THEN <<>>
    ELSE ExtractOfficeLocations(doc_text, DetectBuilding(doc_text))

RECURSIVE DirectoryLocationChunks(_)
\* One location chunk for each office record of each item of the directory
\* department, in the order of the items.
DirectoryLocationChunks(items) ==
    IF items = <<>> THEN <<>>
    ELSE (IF items[1].department = DirectoryDepartment
          THEN CreateLocationChunks(OfficeRecords(items[1].clean_content), items[1].url,
                                    items[1].department)
          ELSE <<>>)
         \o DirectoryLocationChunks(Tail(items))

\* The items the chunking loop has visited.
ChunkedItems ==
    IF process_pc \in {"chunk", "done"} THEN SubSeq(valid_items, 1, item_no - 1) ELSE <<>>

\* C23: the chunks of type "location" in the chunk list are, one for one, the
\* office records of the visited items of the directory department, each with
\* unit_id = normalize(name_zh); an item of another department gives none.
C23_LocationChunksFromDirectoryOnly ==
    /\ SelectSeq(all_chunks, LAMBDA c : c.metadata.type = "location")
          = DirectoryLocationChunks(ChunkedItems)
    /\ \A k \in 1..Len(all_chunks) :
          all_chunks[k].metadata.type = "location" =>
              /\ all_chunks[k].metadata.department = DirectoryDepartment
              /\ all_chunks[k].metadata.unit_id = NormalizeUnitId(all_chunks[k].metadata.unit_name)

\* The value build_location_map writes for an office record.
LocInfoOf(record) ==
    record.building \o <<" ">> \o record.floor \o <<" ">> \o record.room \o <<"shi">>

\* The office records of the raw items of the directory department, as
\* build_location_map reads them: from the content cleaned as a directory page.
DirectoryRecords ==
    UNION { LET clean == CleanTextAdvanced(raw_items[k].content, DirectoryDepartment)
            IN  IF clean.raised \/ raw_items[k].content = <<>> THEN {}
                ELSE {OfficeRecords(clean.text)[j] : j \in 1..Len(OfficeRecords(clean.text))} :
            k \in {j \in 1..Len(raw_items) : raw_items[j].department = DirectoryDepartment} }

\* C24: while build_location_map runs, every key of its map is
\* normalize(name_zh) of an office record of a raw item of the directory
\* department, and the value is the "building floor room" string of that record.
C24_MapKeysAreUnitKeys ==
    process_pc = "build_location_map" =>
        \A k \in 1..Len(location_map) :
            \E r \in DirectoryRecords :
                /\ location_map[k].key = NormalizeUnitId(r.name_zh)
                /\ location_map[k].value = LocInfoOf(r)

(***************************************************************************)
(* Properties of enrich_content_with_locations                             *)
(***************************************************************************)

\* The lines of the enriched text behind the marker of the enrichment block.
NoteLines ==
    IF ~Contains(enriched, EnrichmentMarker) THEN <<>>
    ELSE SplitLines(Drop(enriched, Find(enriched, EnrichmentMarker) + Len(EnrichmentMarker) - 1))

\* The keys of the location map that are in the cleaned text.
KnownOfficesIn(doc_text) ==
    {k \in 1..Len(location_map) : Contains(doc_text, location_map[k].key)}

\* C25: when the cleaned text of a page of another department than the
\* directory's has been enriched, then for every office name of the map that
\* is in the cleaned text the line "{office}位置：{location}" is among the lines
\* behind the marker; and a text with no office name of the map in it is
\* returned as it was.
C25_EnrichmentCoverage ==
    (cleaner_pc \in {"enriched", "enriched cleaned"} /\ department # DirectoryDepartment) =>
        /\ \A k \in KnownOfficesIn(cleaned.text) :
              \E j \in 1..Len(NoteLines) :
                  NoteLines[j] = location_map[k].key \o <<"wei", "zhi", "fw:">>
                                   \o location_map[k].value
        /\ KnownOfficesIn(cleaned.text) = {} => enriched = cleaned.text

(***************************************************************************)
(* Properties of clean_text_advanced                                       *)
(***************************************************************************)

\* clean_lines of the text given to the cleaner: its lines after the noise
\* removal, as the structural pass reads them.
GivenCleanLines == NoiseRemoval(SplitLines(DeptPrefix(StripEnrichment(text), department)))

RECURSIVE RewrittenFrom(_, _)
\* The indexes at which the structural pass, run from index k on, rewrites a
\* room line and the two lines after it.
RewrittenFrom(clean_lines, k) ==
    IF k > Len(clean_lines) THEN {}
    ELSE IF /\ IsRoom(clean_lines[k])
            /\ k + 2 <= Len(clean_lines)
            /\ ReformatTaken(clean_lines, k, clean_lines[k + 1], clean_lines[k + 2])
         THEN {k} \cup RewrittenFrom(clean_lines, k + 3)
         ELSE RewrittenFrom(clean_lines, k + 1)

\* A line that is neither a header nor a floor.
IsNameLine(line) == ~Contains(line, <<"#">>) /\ ~Contains(line, <<"lou">>)

\* C26: when the cleaner has returned, each rewrite of its structural pass
\* started at a room line, wrote the line "- {room} {nameZh} ({nameEn})" of
\* that line and the two after it, and both of these two are lines that are
\* neither a header nor a floor.
C26_RewriteTakesNameLinesOnly ==
    cleaner_pc = "cleaned" =>
        \A k \in RewrittenFrom(GivenCleanLines, 1) :
            \E room \in {GivenCleanLines[k]}, next1 \in {GivenCleanLines[k + 1]},
               next2 \in {GivenCleanLines[k + 2]} :
                /\ IsRoom(room)
                /\ \E j \in 1..Len(SplitLines(cleaned.text)) :
                      SplitLines(cleaned.text)[j]
                          = <<"-", " ">> \o room \o <<" ">> \o next1 \o <<" ", "(">> \o next2
                              \o <<")">>
                /\ IsNameLine(next1)
                /\ IsNameLine(next2)

(***************************************************************************)
(* _extract_unit_name_from_text, applied to a text                         *)
(***************************************************************************)

\* The most parts of a text given to _extract_unit_name_from_text.
MaxDetectParts == 4

\* The parts those texts are made of: a number, two office names, a blank and
\* a line break.
DetectParts == { S("12"), ZhuCeZu, JiaoWuChu, <<" ">>, <<"\n">> }

RECURSIVE Concat(_)
\* The parts one after the other.
Concat(parts) == IF parts = <<>> THEN <<>> ELSE parts[1] \o Concat(Tail(parts))

DetectTexts == { Concat(ps) : ps \in UNION {[1..n -> DetectParts] : n \in 0..MaxDetectParts} }

InitDetect ==
    /\ store = <<>>
    /\ EngineIdle
    /\ CleanerIdle
    /\ ExtractorIdle
    /\ NormalizerIdle
    /\ ProcessIdle
    /\ NoneSuspended
    /\ ResponderIdle
    /\ given_text \in DetectTexts
    /\ detected_unit = <<>>
    /\ detector_pc = "given"

\* _extract_unit_name_from_text(text) is called and returns.
DetectUnitName ==
    /\ detector_pc = "given"
    /\ detected_unit' = ExtractUnitNameFromText(given_text)
    /\ detector_pc' = "returned"
    /\ UNCHANGED given_text
    /\ UNCHANGED <<engineVars, cleanerVars, extractorVars, normalizerVars, processVars,
                   schedulerVars, responderVars>>

NextDetect == DetectUnitName

SpecDetect == InitDetect /\ [][NextDetect]_vars

\* The matches of (.{2,12}suffix) that start at index p of the text, whatever
\* their length.
MatchesAt(doc_text, suffix, p) ==
    { SubSeq(doc_text, p, p + n + Len(suffix) - 1) :
        n \in {n \in 2..12 :
                  /\ p + n + Len(suffix) - 1 <= Len(doc_text)
                  /\ \A j \in p..(p + n - 1) : doc_text[j] # "\n"
                  /\ SubSeq(doc_text, p + n, p + n + Len(suffix) - 1) = suffix} }

\* A candidate that is not empty and does not start with a digit.
NonDigitLeading(unit) == unit # <<>> /\ unit[1] \notin Digits

\* The suffix has, somewhere in the text, a candidate that does not start
\* with a digit.
HasCandidateAnywhere(doc_text, suffix) ==
    \E p \in 1..Len(doc_text) :
        \E found \in MatchesAt(doc_text, suffix, p) : NonDigitLeading(Strip(found))

\* The candidate of the suffix that re.search gives: the longest match at the
\* first index at which the pattern matches, stripped; "" when there is none.
FirstCandidate(doc_text, suffix) ==
    LET starts == {p \in 1..Len(doc_text) : MatchesAt(doc_text, suffix, p) # {}}
    IN  IF starts = {} THEN <<>>
        ELSE LET p == CHOOSE a \in starts : \A b \in starts : a <= b
                 longest == CHOOSE a \in MatchesAt(doc_text, suffix, p) :
                                \A b \in MatchesAt(doc_text, suffix, p) : Len(a) >= Len(b)
             IN  Strip(longest)

\* The place in the list of patterns of the suffix the name ends in, 0 for none.
SuffixOf(unit) ==
    LET ends == {k \in DOMAIN UnitNameSuffixes :
                    /\ Len(unit) >= Len(UnitNameSuffixes[k])
                    /\ SubSeq(unit, Len(unit) - Len(UnitNameSuffixes[k]) + 1, Len(unit))
                          = UnitNameSuffixes[k]}
    IN  IF ends = {} THEN 0 ELSE CHOOSE k \in ends : TRUE

\* C27, as stated: the name returned ends in a suffix only if no suffix before
\* it in the list has, anywhere in the text, a candidate that does not start
\* with a digit; none is returned only if no suffix has such a candidate; and
\* the name returned does not start with a digit.
C27_FirstCandidateAnywhere ==
    detector_pc = "returned" =>
        IF detected_unit = <<>>
        THEN \A k \in DOMAIN UnitNameSuffixes :
                 ~HasCandidateAnywhere(given_text, UnitNameSuffixes[k])
        ELSE /\ SuffixOf(detected_unit) # 0
             /\ \A k \in 1..(SuffixOf(detected_unit) - 1) :
                   ~HasCandidateAnywhere(given_text, UnitNameSuffixes[k])
             /\ detected_unit[1] \notin Digits

\* C27, amended: the candidate of a suffix is the first match of its pattern
\* in the text, the longest at the first index where the pattern matches.  The
\* name returned is the candidate of the first suffix of the list whose
\* candidate does not start with a digit; none is returned exactly when no
\* suffix has such a first match; and the name returned does not start with a
\* digit.
C27_FirstMatchPerSuffix ==
    detector_pc = "returned" =>
        IF detected_unit = <<>>
        THEN \A k \in DOMAIN UnitNameSuffixes :
                 ~NonDigitLeading(FirstCandidate(given_text, UnitNameSuffixes[k]))
        ELSE /\ SuffixOf(detected_unit) # 0
             /\ detected_unit = FirstCandidate(given_text, UnitNameSuffixes[SuffixOf(detected_unit)])
             /\ \A k \in 1..(SuffixOf(detected_unit) - 1) :
                   ~NonDigitLeading(FirstCandidate(given_text, UnitNameSuffixes[k]))
             /\ detected_unit[1] \notin Digits

\* A name that ends in the second suffix of the list was returned for a text
\* in which the first match of the first suffix starts with a digit and a
\* later match of the first suffix does not.
C27_Witness ==
    /\ detector_pc = "returned"
    /\ SuffixOf(detected_unit) = 2
    /\ FirstCandidate(given_text, UnitNameSuffixes[1]) # <<>>
    /\ FirstCandidate(given_text, UnitNameSuffixes[1])[1] \in Digits
    /\ HasCandidateAnywhere(given_text, UnitNameSuffixes[1])

(***************************************************************************)
(* generate_response (src/app.py): the retry loop around the model call    *)
(***************************************************************************)

\* max_retries
MaxRetries == 3

\* retry_delay, in seconds
RetryDelay == 5

\* The most entries of a retrieval result given as context.
MaxContext == 2

\* location_lines: one line for each entry of type "location", without
\* repetitions.
LocationLines(entries) ==
    LET LineOf(meta) ==
            LET unit == IF MetaGet(meta, "unit_name") # <<>> THEN MetaGet(meta, "unit_name")
                        ELSE MetaGet(meta, "title")
                location_text == Strip(MetaGet(meta, "building") \o <<" ">>
                                         \o MetaGet(meta, "floor") \o <<" ">>
                                         \o MetaGet(meta, "room") \o <<"shi">>)
            IN  IF unit # <<>> THEN <<"-", " ">> \o unit \o <<"fw:">> \o location_text
                ELSE <<"-", " ">> \o location_text
        RECURSIVE Go(_, _)
        Go(lines, k) ==
            IF k > Len(entries) THEN lines
            ELSE IF MetaGet(entries[k].meta, "type") = "location"
                    /\ \A j \in 1..Len(lines) : lines[j] # LineOf(entries[k].meta)
                 THEN Go(Append(lines, LineOf(entries[k].meta)), k + 1)
                 ELSE Go(lines, k + 1)
    IN  Go(<<>>, 1)

\* What a call of model.generate_content may do: return a response with text,
\* return a response without text, raise ResourceExhausted, raise another
\* exception.
Outcomes == {"text", "empty", "quota", "error"}

\* A variant in which every exception is handled as ResourceExhausted is.
IsAnyException(outcome) == outcome \in {"quota", "error"}

\* except exceptions.ResourceExhausted
IsResourceExhausted(outcome) == outcome = "quota"

\* wait_time = retry_delay * (2 ** attempt)
WaitTime(n) == RetryDelay * (2 ^ n)

\* The entries a context is made of, as retrieve returns them.
ContextEntries ==
    { [doc |-> c.text, meta |-> c.metadata, dist |-> 1] :
        c \in { LocationChunk(Office(S("1") \o <<"lou">>, S("106"), ZhuCeZu, S("Registrar")),
                              S("u/admin"), "admin"),
                LocationChunk(Office(S("B1"), S("12"), JiaoWuChu, <<>>), S("u/admin"), "admin"),
                ContentChunk(ZhuCeZu, ZhuCeZu \o <<" ", "dian", "hua">>, S("u/reg"), "aca",
                             [unit_name |-> ZhuCeZu, unit_id |-> NormalizeUnitId(ZhuCeZu)]) } }

Contexts == UNION {[1..n -> ContextEntries] : n \in 0..MaxContext}

InitRespond ==
    /\ store = <<>>
    /\ EngineIdle
    /\ CleanerIdle
    /\ ExtractorIdle
    /\ NormalizerIdle
    /\ ProcessIdle
    /\ NoneSuspended
    /\ DetectorIdle
    /\ api_key \in BOOLEAN
    /\ context_docs \in Contexts
    /\ attempt = 0
    /\ model_calls = <<>>
    /\ waits = <<>>
    /\ answer = [kind |-> "none", location_lines |-> <<>>]
    /\ returned_docs = <<>>
    /\ responder_pc = "called"

\* return <answer>, context_docs
ReturnAnswer(kind, lines) ==
    /\ answer' = [kind |-> kind, location_lines |-> lines]
    /\ returned_docs' = context_docs
    /\ responder_pc' = "returned"

\* if not api_key: return the message that asks for a key
NoApiKey ==
    /\ responder_pc = "called"
    /\ ~api_key
    /\ ReturnAnswer("no key", <<>>)
    /\ UNCHANGED <<api_key, context_docs, attempt, model_calls, waits>>
    /\ UNCHANGED <<engineVars, cleanerVars, extractorVars, normalizerVars, processVars,
                   schedulerVars, detectorVars>>

\* One turn of for attempt in range(max_retries): the model is called; an
\* answer is returned, an empty answer breaks the loop, ResourceExhausted is
\* waited on and tried again, or given up at the last attempt, and any other
\* exception returns a message.
Attempt ==
    /\ responder_pc \in {"called", "retry"}
    /\ api_key
    /\ attempt < MaxRetries
    /\ \E outcome \in Outcomes :
         /\ model_calls' = Append(model_calls, outcome)
         /\ IF IsResourceExhausted(outcome)
            THEN IF attempt < MaxRetries - 1
                 THEN /\ waits' = Append(waits, WaitTime(attempt))
                      /\ attempt' = attempt + 1
                      /\ responder_pc' = "retry"
                      /\ UNCHANGED <<answer, returned_docs>>
                 ELSE /\ ReturnAnswer("quota exceeded", <<>>)
                      /\ UNCHANGED <<waits, attempt>>
            ELSE /\ CASE outcome = "text" -> ReturnAnswer("answer", LocationLines(context_docs))
                      [] outcome = "empty" -> ReturnAnswer("no answer", <<>>)
                      [] OTHER -> ReturnAnswer("error", <<>>)
                 /\ UNCHANGED <<waits, attempt>>
    /\ UNCHANGED <<api_key, context_docs>>
    /\ UNCHANGED <<engineVars, cleanerVars, extractorVars, normalizerVars, processVars,
                   schedulerVars, detectorVars>>

NextRespond ==
    \/ NoApiKey
    \/ Attempt

\* A call of the model returns or raises, and time.sleep returns: a call of
\* generate_response that can take a step takes it.
SpecRespond == InitRespond /\ [][NextRespond]_vars /\ WF_vars(NextRespond)

\* C28: the model is called at most 3 times; every call but the last ended in
\* a quota error and was followed, before the next call, by a wait of
\* 5 * 2^attempt seconds; a call that ended otherwise is the last; the context
\* is not changed; and every call of generate_response returns, with an answer
\* and the context it was given.
C28_RetryPolicy ==
    /\ [](Len(model_calls) <= MaxRetries)
    /\ [](\A k \in 1..(Len(model_calls) - 1) :
             /\ model_calls[k] = "quota"
             /\ k <= Len(waits)
             /\ waits[k] = RetryDelay * (2 ^ (k - 1)))
    /\ [](Len(waits) <= Len(model_calls))
    /\ []((model_calls # <<>> /\ model_calls[Len(model_calls)] # "quota")
             => responder_pc = "returned")
    /\ [][model_calls' # model_calls => responder_pc # "returned"]_vars
    /\ [][context_docs' = context_docs]_vars
    /\ [](responder_pc = "returned" => (answer.kind # "none" /\ returned_docs = context_docs))
    /\ <>(responder_pc = "returned")

\* A call with an empty context returned after two quota errors and the waits
\* of 5 and 10 seconds, with the answer of the third call.
C28_Witness ==
    /\ responder_pc = "returned"
    /\ context_docs = <<>>
    /\ model_calls = <<"quota", "quota", "text">>
    /\ waits = <<5, 10>>
    /\ answer.kind = "answer"
    /\ returned_docs = <<>>

\* C29: clean_text_advanced returns a string for every text and department:
\* no call of it raises, neither on a given text nor on a text it returned.
C29_CleanerTotal ==
    /\ cleaner_pc \notin {"raised", "raised again"}
    /\ ~cleaned.raised
    /\ ~recleaned.raised

(***************************************************************************)
(* Properties of retrieve as a function of the store and the query         *)
(***************************************************************************)

\* C30: retrieve is deterministic.  On a store that answers every query, what a
\* call returns (documents, metadatas and distances, in their order) is the
\* one value the store, the query and the flag determine: it is the same for
\* every order in which the lists made of the resolved unit ids and unit names
\* are walked.
C30_RetrieveDeterministic ==
    (pc = "done" /\ faults = 0) =>
        \E only \in {Retrieve(store, query, use_two_stage)} :
            /\ Cardinality(only) = 1
            /\ only = {results}

=============================================================================
